---- MODULE Spec2Model ----
(***************************************************************************)
(* Model of the pod-toolkit / etsy-helpers command line tool:              *)
(*   - the validation utilities (validateProductInput, toProduct),         *)
(*   - the configuration check (getConfig, validateConfig),                *)
(*   - the sales channels (EtsyService, WebsiteChannel),                   *)
(*   - the commands add-product and validate-product.                      *)
(*                                                                         *)
(* Representation of JavaScript values.                                    *)
(*   string   a run-length encoded character sequence: a sequence of runs  *)
(*            [ch |-> c, n |-> k], k >= 1, adjacent runs of different      *)
(*            characters.  "aaa b" is <<[ch|->"a",n|->3], [ch|->" ",n|->1],*)
(*            [ch|->"b",n|->1]>>.  The encoding keeps the content of the   *)
(*            string and lets a title of 141 characters be one run.        *)
(*   number   [k |-> "num", v |-> i]  a finite number (prices are counted  *)
(*            in hundredths, so 0.01 is v = 1),                            *)
(*            [k |-> "nan", v |-> 0]  NaN,                                 *)
(*            [k |-> "undef", v |-> 0] undefined / null.                   *)
(*   T | undefined   [some |-> BOOLEAN, list |-> ...] for optional lists.  *)
(***************************************************************************)
EXTENDS Integers, Sequences, FiniteSets, TLC

(***************************************************************************)
(* Program constants of the validation rules.                              *)
(***************************************************************************)
MaxTitleLen == 140
MaxTags == 13
MaxTagLen == 20

(***************************************************************************)
(* Bounds of the model.                                                    *)
(***************************************************************************)
\* longest run of padding white space put around a text field
MaxPad == 2

(***************************************************************************)
(* Strings.                                                                *)
(***************************************************************************)
WhiteSpace == {" ", "\t"}

\* the string made of n copies of the character c
Rep(c, n) == IF n <= 0 THEN <<>> ELSE <<[ch |-> c, n |-> n]>>

\* String.prototype.concat / the + operator on strings
Cat(s, t) ==
  IF s = <<>> THEN t
  ELSE IF t = <<>> THEN s
  ELSE IF s[Len(s)].ch = t[1].ch
       THEN SubSeq(s, 1, Len(s) - 1)
            \o <<[ch |-> t[1].ch, n |-> s[Len(s)].n + t[1].n]>>
            \o Tail(t)
       ELSE s \o t

\* String.prototype.length
RECURSIVE StrLen(_)
StrLen(s) == IF s = <<>> THEN 0 ELSE Head(s).n + StrLen(Tail(s))

RECURSIVE TrimStart(_)
TrimStart(s) ==
  IF s # <<>> /\ Head(s).ch \in WhiteSpace THEN TrimStart(Tail(s)) ELSE s

RECURSIVE TrimEnd(_)
TrimEnd(s) ==
  IF s # <<>> /\ s[Len(s)].ch \in WhiteSpace
  THEN TrimEnd(SubSeq(s, 1, Len(s) - 1))
  ELSE s

\* a trim that strips one white-space character from each end only
\* (the regular expression /^\s|\s$/g in place of /^\s+|\s+$/g)
DropCharStart(s) ==
  IF s # <<>> /\ Head(s).ch \in WhiteSpace
  THEN Rep(Head(s).ch, Head(s).n - 1) \o Tail(s)
  ELSE s

DropCharEnd(s) ==
  IF s # <<>> /\ s[Len(s)].ch \in WhiteSpace
  THEN SubSeq(s, 1, Len(s) - 1) \o Rep(s[Len(s)].ch, s[Len(s)].n - 1)
  ELSE s

TrimOneChar(s) == DropCharEnd(DropCharStart(s))

\* a trim that forgets the end of the string (trimStart for trim)
TrimLeftOnly(s) == TrimStart(s)

\* String.prototype.trim
Trim(s) == TrimEnd(TrimStart(s))

\* Array.prototype.map over a list of strings
MapTrim(l) == [i \in 1..Len(l) |-> Trim(l[i])]

(***************************************************************************)
(* Numbers.                                                                *)
(***************************************************************************)
Num(i) == [k |-> "num", v |-> i]
NaN == [k |-> "nan", v |-> 0]
Undefined == [k |-> "undef", v |-> 0]

\* x <= 0 and x < 0 of JavaScript: every comparison with NaN is false
JsLeZero(x) == x.k = "num" /\ x.v <= 0
JsLtZero(x) == x.k = "num" /\ x.v < 0

\* x === undefined || x === null
IsNullish(x) == x.k = "undef"

(***************************************************************************)
(* Optional lists.                                                         *)
(***************************************************************************)
Absent == [some |-> FALSE, list |-> <<>>]
Some(l) == [some |-> TRUE, list |-> l]

(***************************************************************************)
(* validateProductInput                                                    *)
(***************************************************************************)
TagMessage(i) == "Tag " \o ToString(i) \o " exceeds 20 characters"

\* the length test written with >= in place of >
TitleErrorsOffByOne(title) ==
  IF title = <<>> \/ StrLen(Trim(title)) = 0
  THEN <<"Title is required">>
  ELSE IF StrLen(title) >= MaxTitleLen
       THEN <<"Title must be 140 characters or less">>
       ELSE <<>>

TitleErrors(title) ==
  IF title = <<>> \/ StrLen(Trim(title)) = 0
  THEN <<"Title is required">>
  ELSE IF StrLen(title) > MaxTitleLen
       THEN <<"Title must be 140 characters or less">>
       ELSE <<>>

DescriptionErrors(description) ==
  IF description = <<>> \/ StrLen(Trim(description)) = 0
  THEN <<"Description is required">>
  ELSE <<>>

PriceErrorsStrict(price) ==
  IF IsNullish(price) THEN <<"Price is required">>
  ELSE IF JsLtZero(price) THEN <<"Price must be greater than 0">>
       ELSE <<>>

PriceErrors(price) ==
  IF IsNullish(price) THEN <<"Price is required">>
  ELSE IF JsLeZero(price) THEN <<"Price must be greater than 0">>
       ELSE <<>>

QuantityErrorsPositive(quantity) ==
  IF IsNullish(quantity) THEN <<"Quantity is required">>
  ELSE IF JsLeZero(quantity) THEN <<"Quantity must be 0 or greater">>
       ELSE <<>>

QuantityErrors(quantity) ==
  IF IsNullish(quantity) THEN <<"Quantity is required">>
  ELSE IF JsLtZero(quantity) THEN <<"Quantity must be 0 or greater">>
       ELSE <<>>

TagCountErrors(tags) ==
  IF tags.some /\ Len(tags.list) > MaxTags
  THEN <<"Maximum 13 tags allowed">>
  ELSE <<>>

\* the forEach loop over the tags, numbering the messages from 0
TagErrorsZeroBased(tags) ==
  LET l == tags.list
      F[i \in 0..Len(l)] ==
        IF i = 0 THEN <<>>
        ELSE F[i - 1] \o (IF StrLen(l[i]) > MaxTagLen
                          THEN <<TagMessage(i - 1)>> ELSE <<>>)
  IN IF tags.some THEN F[Len(l)] ELSE <<>>

\* the forEach loop over the tags
TagErrors(tags) ==
  LET l == tags.list
      F[i \in 0..Len(l)] ==
        IF i = 0 THEN <<>>
        ELSE F[i - 1] \o (IF StrLen(l[i]) > MaxTagLen
                          THEN <<TagMessage(i)>> ELSE <<>>)
  IN IF tags.some THEN F[Len(l)] ELSE <<>>

\* a validation that returns at the first field in error
validateFirstOnly(input) ==
  LET all == TitleErrors(input.title) \o DescriptionErrors(input.description)
             \o PriceErrors(input.price) \o QuantityErrors(input.quantity)
             \o TagCountErrors(input.tags) \o TagErrors(input.tags)
  IN IF all = <<>> THEN <<>> ELSE <<Head(all)>>

validateProductInput(input) ==
  TitleErrors(input.title)
  \o DescriptionErrors(input.description)
  \o PriceErrors(input.price)
  \o QuantityErrors(input.quantity)
  \o TagCountErrors(input.tags)
  \o TagErrors(input.tags)

(***************************************************************************)
(* toProduct                                                               *)
(***************************************************************************)
MapOpt(o) == IF o.some THEN Some(MapTrim(o.list)) ELSE Absent

toProduct(input) ==
  [title       |-> Trim(input.title),
   description |-> Trim(input.description),
   price       |-> input.price,
   quantity    |-> input.quantity,
   tags        |-> MapOpt(input.tags),
   materials   |-> MapOpt(input.materials)]

\* a Product read as a ProductInput (a Product has no image URLs)
AsInput(p) ==
  [title |-> p.title, description |-> p.description, price |-> p.price,
   quantity |-> p.quantity, tags |-> p.tags, materials |-> p.materials,
   images |-> Absent]

(***************************************************************************)
(* Parsers of the command line options.                                    *)
(***************************************************************************)
\* String.prototype.split(','): cur is the piece being read
RECURSIVE SplitFrom(_, _)
SplitFrom(s, cur) ==
  IF s = <<>> THEN <<cur>>
  ELSE IF Head(s).ch = ","
       THEN <<cur>> \o [i \in 1..(Head(s).n - 1) |-> <<>>]
            \o SplitFrom(Tail(s), <<>>)
       ELSE SplitFrom(Tail(s), Append(cur, Head(s)))

Split(s) == SplitFrom(s, <<>>)

NonEmpty(t) == StrLen(t) > 0

\* value.split(',').map(x => x.trim()).filter(x => x.length > 0)
ParseCsv(value) == SelectSeq(MapTrim(Split(value)), NonEmpty)

parseTags(value) == ParseCsv(value)
parseMaterials(value) == ParseCsv(value)
parseImages(value) == ParseCsv(value)

\* parseFloat / parseInt on the text of a flag.  The text is either a
\* numeric literal, held by its value, or a text that is no number.
NumText(i) == [numeric |-> TRUE, v |-> i]
JunkText == [numeric |-> FALSE, v |-> 0]

parseFloat(text) == IF text.numeric THEN Num(text.v) ELSE NaN
parseInt(text) == IF text.numeric THEN Num(text.v) ELSE NaN

(***************************************************************************)
(* Configuration.                                                          *)
(***************************************************************************)
\* an environment variable: unset, set to the empty string, or set
EnvUnset == [set |-> FALSE, val |-> ""]
EnvVal(v) == [set |-> TRUE, val |-> v]

\* process.env.X || ''
OrEmpty(e) == IF e.set THEN e.val ELSE ""

\* getConfig: the etsy section of the configuration
getConfig(e) ==
  [etsy |-> [apiKey |-> OrEmpty(e.ETSY_API_KEY),
             token  |-> OrEmpty(e.ETSY_TOKEN),
             shopId |-> OrEmpty(e.ETSY_SHOP_ID)]]

\* a check that forgets the shop id
MissingFieldsNoShop(config) ==
  (IF config.etsy.apiKey = "" THEN <<"ETSY_API_KEY">> ELSE <<>>)
  \o (IF config.etsy.token = "" THEN <<"ETSY_TOKEN">> ELSE <<>>)

\* validateConfig: the list missingFields; the function throws when the
\* list is not empty
MissingFields(config) ==
  (IF config.etsy.apiKey = "" THEN <<"ETSY_API_KEY">> ELSE <<>>)
  \o (IF config.etsy.token = "" THEN <<"ETSY_TOKEN">> ELSE <<>>)
  \o (IF config.etsy.shopId = "" THEN <<"ETSY_SHOP_ID">> ELSE <<>>)

validateConfigThrows(config) == MissingFields(config) # <<>>

(***************************************************************************)
(* EtsyService.                                                            *)
(*                                                                         *)
(* The outcome of one HTTP call made through the axios client:             *)
(*   kind "ok"          a response with a 2xx status,                      *)
(*   kind "status"      an AxiosError carrying a response,                 *)
(*   kind "noResponse"  an AxiosError carrying a request and no response,  *)
(*   kind "setup"       an AxiosError carrying neither,                    *)
(*   kind "thrown"      any other exception.                               *)
(* data is the body: shape "null" (null or undefined) or "object", with    *)
(* listing_id, error ("" when absent) and errors, whose shape is "absent", *)
(* "list" (an array of strings), "string" (items are its characters) or    *)
(* "object" (a value that is not iterable).                                *)
(***************************************************************************)
NoErrors == [shape |-> "absent", items |-> <<>>]

Data(shape, id, error, errs) ==
  [shape |-> shape, listing_id |-> id, error |-> error, errors |-> errs]

NullData == Data("null", Undefined, "", NoErrors)

Outcome(kind, status, text, data, message) ==
  [kind |-> kind, status |-> status, statusText |-> text, data |-> data,
   message |-> message]

Ok(data) == Outcome("ok", 200, "OK", data, "")

\* no outcome received yet
NotReceived == Outcome("none", 0, "", NullData, "")

Result(success, listingId, message, errs) ==
  [success |-> success, listingId |-> listingId, message |-> message,
   errors |-> errs]

\* how a call of a method ends: it returns a result or it throws (the
\* promise of an async method is then rejected)
Returned(r) == [state |-> "returned", result |-> r]
Threw == [state |-> "threw", result |-> Result(FALSE, "", "", <<>>)]
Pending == [state |-> "pending", result |-> Result(FALSE, "", "", <<>>)]
Idle == [state |-> "idle", result |-> Result(FALSE, "", "", <<>>)]

\* number.toString() through the optional call listing_id?.toString();
\* "" stands for undefined
IdString(x) == IF x.k = "num" THEN ToString(x.v) ELSE ""

\* handleError
handleError(oc) ==
  IF oc.kind \in {"status", "noResponse", "setup"}
  THEN IF oc.kind = "status"
       THEN LET head == <<"API Error: " \o ToString(oc.status) \o " - "
                          \o oc.statusText>>
                err  == IF oc.data.shape = "object" /\ oc.data.error # ""
                        THEN <<oc.data.error>> ELSE <<>>
                sh   == IF oc.data.shape = "object"
                        THEN oc.data.errors.shape ELSE "absent"
            IN IF sh = "object"
               THEN Threw   \* errors.push(...data.errors): not iterable
               ELSE Returned(Result(FALSE, "", "Failed to process request",
                        head \o err
                        \o (IF sh = "absent" THEN <<>>
                            ELSE oc.data.errors.items)))
       ELSE IF oc.kind = "noResponse"
            THEN Returned(Result(FALSE, "", "Failed to process request",
                   <<"No response from Etsy API. Please check your connection.">>))
            ELSE Returned(Result(FALSE, "", "Failed to process request",
                   <<"Request error: " \o oc.message>>))
  ELSE Returned(Result(FALSE, "", "An unexpected error occurred",
                       <<oc.message>>))

\* reading response.data.listing_id of a null body
TypeErrorOutcome ==
  Outcome("thrown", 0, "", NullData, "Cannot read properties of null")

\* the part of createListing after the POST; message is the text of the
\* success result
ListingSettled(oc, message) ==
  IF oc.kind = "ok"
  THEN IF oc.data.shape = "null"
       THEN handleError(TypeErrorOutcome)
       ELSE Returned(Result(TRUE, IdString(oc.data.listing_id), message, <<>>))
  ELSE handleError(oc)

\* product.taxonomyId of a Product that may carry the Etsy fields
TaxonomyOf(p) ==
  IF "taxonomyId" \in DOMAIN p THEN p.taxonomyId ELSE Undefined

\* toEtsyPayload
toEtsyPayload(p) ==
  [quantity |-> p.quantity, title |-> p.title,
   description |-> p.description, price |-> p.price,
   who_made |-> "i_did", when_made |-> "2020_2024",
   taxonomy_id |-> IF IsNullish(TaxonomyOf(p)) THEN Num(1) ELSE TaxonomyOf(p),
   tags |-> p.tags, materials |-> p.materials]

(***************************************************************************)
(* State.                                                                  *)
(***************************************************************************)
VARIABLES
  pc,        \* position of the caller / of the command handler
  input,     \* the ProductInput under consideration
  errors,    \* the list returned by validateProductInput(input)
  product,   \* the Product returned by toProduct(input)
  again,     \* the Product returned by toProduct(product)
  env,       \* process.env: ETSY_API_KEY, ETSY_TOKEN, ETSY_SHOP_ID
  cmd,       \* the command being run, "" when none
  opts,      \* the options the command was started with
  exitCode,  \* the exit status of the process, -1 while it runs
  log,       \* history: the calls made so far by the command, in order
  call,      \* the channel method called last
  ncalls,    \* number of channel method calls made so far
  requests,  \* history: the HTTP requests issued so far, in order
  pending,   \* the requests in flight (indices of requests)
  ret,       \* how the channel method called last ended
  result,    \* add-product: the result of createListing
  imageResult, \* add-product: the result of uploadImages
  dirExists, \* website channel: the output directory exists
  files,     \* website channel: the files of the output directory, by name
  clock,     \* the last reading of Date.now()
  created,   \* history: the listing ids returned by the successful calls of
             \* WebsiteChannel.createListing, in order
  config,    \* the Config returned by getConfig()
  check,     \* how the configuration check called last ended
  procs      \* concurrent CLI processes: how far the createListing of each
             \* has got, and what it holds in memory

vars == <<pc, input, errors, product, again, env, cmd, opts, exitCode, log,
          call, ncalls, requests, pending, ret, result, imageResult,
          dirExists, files, clock, created, config, check, procs>>

webVars == <<dirExists, files, clock, created>>
cfgVars == <<config, check>>
raceVars == <<procs>>

fnVars == <<input, errors, product, again>>
cliVars == <<cmd, opts, exitCode, log, result, imageResult>>
etsyVars == <<call, ncalls, requests, pending, ret>>

(***************************************************************************)
(* Inputs of the validation utilities.                                     *)
(***************************************************************************)
Pad(l, body, t) == Cat(Cat(Rep(" ", l), body), Rep(" ", t))

PadPairs == {<<0, 0>>, <<MaxPad, 1>>}

TitleBodies ==
  { <<>>,
    Cat(Rep("a", 1), Cat(Rep(" ", 1), Rep("b", 1))),
    Rep("a", MaxTitleLen - MaxPad - 1),
    Rep("a", MaxTitleLen),
    Rep("a", MaxTitleLen + 1) }

Titles ==
  { Pad(p[1], b, p[2]) : p \in PadPairs, b \in TitleBodies }
  \cup { Rep(" ", MaxTitleLen + 1) }

Descriptions ==
  { <<>>,
    Cat(Rep("\t", 1), Rep(" ", MaxPad)),
    Cat(Rep(" ", MaxPad), Cat(Rep("d", 1), Rep("\t", 1))) }

Prices == { Undefined, NaN, Num(-1), Num(0), Num(1) }

Quantities == { Undefined, NaN, Num(-1), Num(0), Num(1) }

ShortTag == Rep("t", 3)
LongTag == Rep("t", MaxTagLen + 1)

TagCounts == {0, 2, MaxTags, MaxTags + 1}

\* n tags, those at the positions in P one character too long
MkTags(n, P) == [i \in 1..n |-> IF i \in P THEN LongTag ELSE ShortTag]

TagLists ==
  { MkTags(n, P) : n \in TagCounts, P \in SUBSET {1, MaxTags + 1} }
  \cup { <<Rep("t", MaxTagLen), Pad(1, Rep("t", MaxTagLen), 0)>>,
         <<Pad(MaxPad, ShortTag, 1), ShortTag>> }

OptTags == { Absent } \cup { Some(l) : l \in TagLists }

OptMaterials == { Absent, Some(<<Pad(1, Rep("w", 4), MaxPad), Rep("i", 3)>>) }

ProductInputs ==
  [title : Titles, description : Descriptions, price : Prices,
   quantity : Quantities, tags : OptTags, materials : OptMaterials,
   images : {Absent}]

NoProduct ==
  [title |-> <<>>, description |-> <<>>, price |-> Undefined,
   quantity |-> Undefined, tags |-> Absent, materials |-> Absent]

NoInput == AsInput(NoProduct)

NoEnv ==
  [ETSY_API_KEY |-> EnvUnset, ETSY_TOKEN |-> EnvUnset,
   ETSY_SHOP_ID |-> EnvUnset]

NoOptions ==
  [title |-> <<>>, description |-> <<>>, price |-> JunkText,
   quantity |-> JunkText, tags |-> Absent, materials |-> Absent,
   images |-> Absent, dryRun |-> FALSE]

\* a call of a channel method: its number, its arguments (listingId, arg),
\* the number n of requests it issues and the file system call that fails
\* during it, if any
NoneYet(n) == [i \in 1..n |-> "none"]

NoCall ==
  [channel |-> "", method |-> "", no |-> 0, listingId |-> "", n |-> 0,
   arg |-> <<>>, fault |-> "none", outcomes |-> <<>>, response |-> NotReceived]

\* the website channel has not been used: no output directory
WebIdle ==
  /\ dirExists = FALSE
  /\ files = <<>>
  /\ clock = 0
  /\ created = <<>>

\* no command has run
CliIdle ==
  /\ cmd = ""
  /\ opts = NoOptions
  /\ exitCode = -1
  /\ log = <<>>
  /\ result = Idle.result
  /\ imageResult = Idle.result

\* getConfig has not been called, no configuration check has been made
NoConfig == [loaded |-> FALSE]

NoCheck == [channel |-> "", threw |-> FALSE, missing |-> <<>>, message |-> ""]

\* no concurrent process has been started
NoProcs == <<>>

RaceIdle == procs = NoProcs

CfgIdle ==
  /\ config = NoConfig
  /\ check = NoCheck

\* no channel method has been called
EtsyIdle ==
  /\ call = NoCall
  /\ ncalls = 0
  /\ requests = <<>>
  /\ pending = {}
  /\ ret = Idle

(***************************************************************************)
(* The validation utilities called as a library: a caller picks an input   *)
(* and applies validateProductInput, toProduct and toProduct again.        *)
(***************************************************************************)
FnInit ==
  /\ pc = "fn_input"
  /\ input \in ProductInputs
  /\ errors = <<>>
  /\ product = NoProduct
  /\ again = NoProduct
  /\ env = NoEnv
  /\ CliIdle
  /\ EtsyIdle
  /\ WebIdle
  /\ CfgIdle
  /\ RaceIdle

CallValidate ==
  /\ pc = "fn_input"
  /\ errors' = validateProductInput(input)
  /\ pc' = "fn_validated"
  /\ UNCHANGED <<input, product, again, env, cfgVars, raceVars, cliVars, etsyVars, webVars>>

CallToProduct ==
  /\ pc = "fn_validated"
  /\ product' = toProduct(input)
  /\ pc' = "fn_converted"
  /\ UNCHANGED <<input, errors, again, env, cfgVars, raceVars, cliVars, etsyVars, webVars>>

CallToProductAgain ==
  /\ pc = "fn_converted"
  /\ again' = toProduct(AsInput(product))
  /\ pc' = "fn_reconverted"
  /\ UNCHANGED <<input, errors, product, env, cfgVars, raceVars, cliVars, etsyVars, webVars>>

FnNext == CallValidate \/ CallToProduct \/ CallToProductAgain

SpecFn == FnInit /\ [][FnNext]_vars

(***************************************************************************)
(* HTTP calls of the EtsyService methods.                                  *)
(***************************************************************************)
\* largest number of image URLs given to uploadImages
MaxImages == 2

ErrorBodies ==
  { NullData,
    Data("object", Undefined, "Invalid title", NoErrors),
    Data("object", Undefined, "", [shape |-> "list", items |-> <<"e1", "e2">>]),
    Data("object", Undefined, "bad", [shape |-> "list", items |-> <<>>]),
    Data("object", Undefined, "", [shape |-> "string", items |-> <<"n", "o">>]),
    Data("object", Undefined, "", [shape |-> "object", items |-> <<>>]) }

Failures ==
  { Outcome("status", 400, "Bad Request", d, "Request failed") :
      d \in ErrorBodies }
  \cup { Outcome("noResponse", 0, "", NullData, "Network Error"),
         Outcome("setup", 0, "", NullData, "Invalid URL"),
         Outcome("thrown", 0, "", NullData, "boom") }

ListingOutcomes ==
  { Ok(Data("object", Num(7), "", NoErrors)),
    Ok(Data("object", Undefined, "", NoErrors)),
    Ok(NullData) }
  \cup Failures

ImageOutcomes ==
  { Ok(NullData),
    Outcome("status", 400, "Bad Request",
            Data("object", Undefined, "", [shape |-> "object", items |-> <<>>]),
            "Request failed"),
    Outcome("noResponse", 0, "", NullData, "Network Error") }

Request(method, path, no, rank, body) ==
  [method |-> method, path |-> path, call |-> no, rank |-> rank,
   body |-> body]

\* the requests one call of uploadImages issues: one POST per URL, the URL
\* at index i with rank i + 1
ImageRequests(no, listingId, urls) ==
  [i \in 1..Len(urls) |->
     Request("POST", "listings/" \o listingId \o "/images", no, i,
             [image_url |-> urls[i]])]

\* the requests of the call in progress that are still in flight
InFlight(no, pend) == {i \in pend : requests[i].call = no}

\* the current call once request i has completed with outcome oc: outcomes
\* holds, by rank, the kind of outcome each request of the call completed
\* with, "none" while it is in flight; response is the outcome the method
\* received last while it was waiting
Completed(i, oc) ==
  IF requests[i].call = call.no
  THEN [call EXCEPT !.outcomes[requests[i].rank] = oc.kind,
                    !.response = IF ret.state = "pending" THEN oc ELSE @]
  ELSE call

\* a completion that lets uploadImages succeed at the first request that
\* succeeds (Promise.any in place of Promise.all)
HttpSettlesAny(i, oc) ==
  /\ i \in pending
  /\ pending' = pending \ {i}
  /\ call' = Completed(i, oc)
  /\ ret' =
       IF requests[i].call # call.no \/ ret.state # "pending" THEN ret
       ELSE IF call.method = "createListing"
            THEN ListingSettled(oc, "Product listing created successfully on Etsy")
       ELSE IF call.method = "updateListing"
            THEN ListingSettled(oc, "Product listing updated successfully on Etsy")
       ELSE IF oc.kind # "ok" THEN handleError(oc)
       ELSE IF TRUE
            THEN Returned(Result(TRUE, call.listingId,
                   ToString(call.n) \o " image(s) uploaded successfully", <<>>))
            ELSE ret
  /\ UNCHANGED <<pc, fnVars, env, cfgVars, raceVars, cliVars, ncalls, requests, webVars>>

\* A request in flight completes with outcome oc.  createListing and
\* updateListing end with it; uploadImages (Promise.all) ends at the first
\* request that fails, or when the last request has succeeded.
HttpSettles(i, oc) ==
  /\ i \in pending
  /\ pending' = pending \ {i}
  /\ call' = Completed(i, oc)
  /\ ret' =
       IF requests[i].call # call.no \/ ret.state # "pending" THEN ret
       ELSE IF call.method = "createListing"
            THEN ListingSettled(oc, "Product listing created successfully on Etsy")
       ELSE IF call.method = "updateListing"
            THEN ListingSettled(oc, "Product listing updated successfully on Etsy")
       ELSE IF oc.kind # "ok" THEN handleError(oc)
       ELSE IF InFlight(call.no, pending') = {}
            THEN Returned(Result(TRUE, call.listingId,
                   ToString(call.n) \o " image(s) uploaded successfully", <<>>))
            ELSE ret
  /\ UNCHANGED <<pc, fnVars, env, cfgVars, raceVars, cliVars, ncalls, requests, webVars>>

ListingSettles ==
  \E i \in pending, oc \in ListingOutcomes :
    /\ requests[i].path \in {"listings", "listing"}
    /\ call.channel = "etsy"
    /\ HttpSettles(i, oc)

ImageSettles ==
  \E i \in pending, oc \in ImageOutcomes :
    /\ requests[i].path \notin {"listings", "listing"}
    /\ requests[i].method = "POST"
    /\ HttpSettles(i, oc)

(***************************************************************************)
(* The commands.                                                           *)
(***************************************************************************)
RECURSIVE Join(_)
\* the text of a comma-separated flag made of the given pieces
Join(l) ==
  IF l = <<>> THEN <<>>
  ELSE IF Len(l) = 1 THEN l[1]
  ELSE Cat(Cat(l[1], Rep(",", 1)), Join(Tail(l)))

Url(i) == Rep("u", i)

CliTitles ==
  { Rep(" ", 1),
    Pad(MaxPad, Rep("a", MaxTitleLen - MaxPad), 0) }

CliDescriptions == { Rep(" ", 1), Pad(1, Rep("d", 4), 0) }

PriceTexts == { JunkText, NumText(0), NumText(1999) }

QuantityTexts == { JunkText, NumText(-1), NumText(2) }

TagFlags ==
  { Absent,
    Some(Join(<<Pad(1, ShortTag, 0), <<>>, Pad(0, Rep("t", MaxTagLen), 1)>>)),
    Some(Join([i \in 1..(MaxTags + 1) |-> ShortTag])) }

MaterialFlags == { Absent, Some(Join(<<Rep("w", 4), Pad(1, Rep("i", 3), 0)>>)) }

ImageFlags ==
  { Absent } \cup { Some(Join([i \in 1..n |-> Url(i)])) : n \in 0..MaxImages }

CliOptions ==
  [title : CliTitles, description : CliDescriptions, price : PriceTexts,
   quantity : QuantityTexts, tags : TagFlags, materials : MaterialFlags,
   images : ImageFlags, dryRun : BOOLEAN]

Envs ==
  [ETSY_API_KEY : {EnvUnset, EnvVal("key")},
   ETSY_TOKEN   : {EnvVal(""), EnvVal("tok")},
   ETSY_SHOP_ID : {EnvUnset, EnvVal("42")}]

\* validate-product has no --dry-run option and does not look at the images
ValidateOptions ==
  {o \in CliOptions : ~o.dryRun /\ ~o.images.some /\ o.materials.some}

\* the ProductInput the handlers build from the parsed options
ProductInputOf(o) ==
  [title       |-> o.title,
   description |-> o.description,
   price       |-> parseFloat(o.price),
   quantity    |-> parseInt(o.quantity),
   tags        |-> IF o.tags.some THEN Some(parseTags(o.tags.list)) ELSE Absent,
   materials   |-> IF o.materials.some
                   THEN Some(parseMaterials(o.materials.list)) ELSE Absent,
   images      |-> IF o.images.some
                   THEN Some(parseImages(o.images.list)) ELSE Absent]

Event(ev, ok) == [ev |-> ev, ok |-> ok]

\* process.exit(code): the process ends and its connections with it
Exit(code) ==
  /\ pc' = "exited"
  /\ exitCode' = code
  /\ pending' = {}

\* the handler returns; the process ends with status 0 once the requests
\* still in flight have completed
Return ==
  /\ pc' = "exited"
  /\ exitCode' = 0

\* validationErrors.length > 0
ValidationFailed(errs) == Len(errs) > 0

\* a run that takes every run for a normal run
isDryRunNever(o) == FALSE

\* const isDryRun = options.dryRun || false
isDryRun(o) == o.dryRun

\* an upload decided without looking at the listing id
ShouldUploadAnyId(inp, res) ==
  inp.images.some /\ Len(inp.images.list) > 0

\* productInput.images && productInput.images.length > 0 && result.listingId
ShouldUploadImages(inp, res) ==
  inp.images.some /\ Len(inp.images.list) > 0 /\ res.listingId # ""

\* handleAddProduct up to its first await: validation, configuration check,
\* conversion, dry-run exit, and the call of createListing, which issues
\* the POST of the listing.
AddProduct(o) ==
  /\ pc = "start"
  /\ cmd' = "add-product"
  /\ opts' = o
  /\ LET inp    == ProductInputOf(o)
         errs   == validateProductInput(inp)
         cfg    == getConfig(env)
         prod   == toProduct(inp)
         v      == Event("validateProductInput", errs = <<>>)
         c      == Event("validateConfig", ~validateConfigThrows(cfg))
     IN /\ input' = inp
        /\ errors' = errs
        /\ IF ValidationFailed(errs)
           THEN /\ Exit(1)
                /\ log' = <<v>>
                /\ UNCHANGED <<product, call, ncalls, requests, ret>>
           ELSE IF ~isDryRun(o) /\ validateConfigThrows(cfg)
           THEN /\ Exit(1)
                /\ log' = <<v, c>>
                /\ UNCHANGED <<product, call, ncalls, requests, ret>>
           ELSE IF isDryRun(o)
           THEN /\ Return
                /\ product' = prod
                /\ log' = <<v, Event("toProduct", TRUE)>>
                /\ UNCHANGED <<call, ncalls, requests, pending, ret>>
           ELSE /\ product' = prod
                /\ log' = <<v, c, Event("toProduct", TRUE),
                            Event("createListing", TRUE)>>
                /\ call' = [channel |-> "etsy", method |-> "createListing",
                            no |-> ncalls + 1,
                            listingId |-> "", n |-> 1,
                            arg |-> prod, fault |-> "none",
                            outcomes |-> NoneYet(1),
                            response |-> NotReceived]
                /\ ncalls' = ncalls + 1
                /\ requests' = Append(requests,
                     Request("POST", "listings", ncalls + 1, 1,
                             toEtsyPayload(prod)))
                /\ pending' = pending \cup {Len(requests) + 1}
                /\ ret' = Pending
                /\ pc' = "awaitCreate"
                /\ exitCode' = exitCode
  /\ UNCHANGED <<again, env, cfgVars, raceVars, result, imageResult, webVars>>

\* handleAddProduct from the return of createListing to its second await
AfterCreateListing ==
  /\ pc = "awaitCreate"
  /\ ret.state \in {"returned", "threw"}
  /\ IF ret.state = "threw"
     THEN /\ Exit(1)
          /\ UNCHANGED <<result, log, call, ncalls, requests, ret>>
     ELSE /\ result' = ret.result
          /\ IF ~ret.result.success
             THEN /\ Exit(1)
                  /\ UNCHANGED <<log, call, ncalls, requests, ret>>
             ELSE IF ShouldUploadImages(input, ret.result)
             THEN /\ log' = Append(log, Event("uploadImages", TRUE))
                  /\ call' = [channel |-> "etsy", method |-> "uploadImages",
                              no |-> ncalls + 1,
                              listingId |-> ret.result.listingId,
                              n |-> Len(input.images.list),
                              arg |-> input.images.list, fault |-> "none",
                              outcomes |-> NoneYet(Len(input.images.list)),
                              response |-> NotReceived]
                  /\ ncalls' = ncalls + 1
                  /\ requests' = requests \o
                       ImageRequests(ncalls + 1, ret.result.listingId,
                                     input.images.list)
                  /\ pending' = pending \cup
                       {Len(requests) + i : i \in 1..Len(input.images.list)}
                  /\ ret' = Pending
                  /\ pc' = "awaitImages"
                  /\ exitCode' = exitCode
             ELSE /\ Return
                  /\ UNCHANGED <<log, call, ncalls, requests, pending, ret>>
  /\ UNCHANGED <<fnVars, env, cfgVars, raceVars, cmd, opts, imageResult, webVars>>

\* handleAddProduct from the return of uploadImages to its end
AfterUploadImages ==
  /\ pc = "awaitImages"
  /\ ret.state \in {"returned", "threw"}
  /\ IF ret.state = "threw"
     THEN /\ Exit(1)
          /\ UNCHANGED imageResult
     ELSE /\ Return
          /\ imageResult' = ret.result
          /\ UNCHANGED pending
  /\ UNCHANGED <<fnVars, env, cfgVars, raceVars, cmd, opts, log, result, call, ncalls,
                 requests, ret, webVars>>

\* handleValidateProduct
\* a handler that never finds a violation
validationErrorsIgnored(errs) == FALSE

\* handleValidateProduct: if (validationErrors.length > 0)
validationErrorsFound(errs) == Len(errs) > 0

ValidateProduct(o) ==
  /\ pc = "start"
  /\ cmd' = "validate-product"
  /\ opts' = o
  /\ LET inp  == ProductInputOf(o)
         errs == validateProductInput(inp)
         v    == Event("validateProductInput", errs = <<>>)
     IN /\ input' = inp
        /\ errors' = errs
        /\ IF validationErrorsFound(errs)
           THEN /\ Exit(1)
                /\ log' = <<v>>
                /\ UNCHANGED product
           ELSE /\ Return
                /\ product' = toProduct(inp)
                /\ log' = <<v, Event("toProduct", TRUE)>>
                /\ UNCHANGED pending
  /\ UNCHANGED <<again, env, cfgVars, raceVars, result, imageResult, call, ncalls, requests,
                 ret, webVars>>

Init ==
  /\ pc = "start"
  /\ input = NoInput
  /\ errors = <<>>
  /\ product = NoProduct
  /\ again = NoProduct
  /\ env \in Envs
  /\ CliIdle
  /\ EtsyIdle
  /\ WebIdle
  /\ CfgIdle
  /\ RaceIdle

RunAddProduct == pc = "start" /\ \E o \in CliOptions : AddProduct(o)

RunValidateProduct ==
  pc = "start" /\ \E o \in ValidateOptions : ValidateProduct(o)

Next ==
  \/ RunAddProduct
  \/ RunValidateProduct
  \/ ListingSettles
  \/ AfterCreateListing
  \/ ImageSettles
  \/ AfterUploadImages

Spec == Init /\ [][Next]_vars

(***************************************************************************)
(* WebsiteChannel.                                                         *)
(*                                                                         *)
(* The output directory is a map from file names (without the .json        *)
(* suffix) to contents; the catalogue products.json is the file "products".*)
(* A content is a JSON value: kind "object" (obj holds its fields), kind   *)
(* "array" (entries holds its elements), kind "null", or kind "garbage"    *)
(* (a text JSON.parse rejects).                                            *)
(***************************************************************************)
\* largest reading of the clock
MaxClock == 2

\* largest number of channel method calls in one behaviour
MaxCalls == 2

RECURSIVE RepStr(_, _)
RepStr(c, n) == IF n = 0 THEN "" ELSE c \o RepStr(c, n - 1)

RECURSIVE ToStr(_)
\* the characters of a string, written out
ToStr(s) == IF s = <<>> THEN "" ELSE RepStr(Head(s).ch, Head(s).n) \o ToStr(Tail(s))

Digits36 ==
  << "0", "1", "2", "3", "4", "5", "6", "7", "8", "9", "a", "b", "c", "d",
     "e", "f", "g", "h", "i", "j", "k", "l", "m", "n", "o", "p", "q", "r",
     "s", "t", "u", "v", "w", "x", "y", "z" >>

RECURSIVE Base36(_)
\* Number.prototype.toString(36)
Base36(n) ==
  IF n < 36 THEN Digits36[n + 1]
  ELSE Base36(n \div 36) \o Digits36[(n % 36) + 1]

Upper == << "A", "B", "G", "M", "U" >>
Lower == << "a", "b", "g", "m", "u" >>

\* String.prototype.toLowerCase on one character
ToLower(c) ==
  IF \E i \in DOMAIN Upper : Upper[i] = c
  THEN Lower[CHOOSE i \in DOMAIN Upper : Upper[i] = c]
  ELSE c

\* the characters the class [a-z0-9] accepts
IsAlnum(c) == \E i \in DOMAIN Digits36 : Digits36[i] = c

RECURSIVE SlugRuns(_, _)
\* toLowerCase().replace(/[^a-z0-9]+/g, '-'): acc is the text produced
SlugRuns(s, acc) ==
  IF s = <<>> THEN acc
  ELSE LET c == IF IsAlnum(ToLower(Head(s).ch)) THEN ToLower(Head(s).ch) ELSE "-"
           r == [ch |-> c, n |-> IF c = "-" THEN 1 ELSE Head(s).n]
       IN SlugRuns(Tail(s),
            IF acc # <<>> /\ acc[Len(acc)].ch = "-" /\ c = "-" THEN acc
            ELSE Cat(acc, <<r>>))

\* replace(/^-|-$/g, ''): one hyphen off each end
StripHyphens(s) ==
  LET t == IF s # <<>> /\ Head(s).ch = "-"
           THEN Rep("-", Head(s).n - 1) \o Tail(s)
           ELSE s
  IN IF t # <<>> /\ t[Len(t)].ch = "-"
     THEN SubSeq(t, 1, Len(t) - 1) \o Rep("-", t[Len(t)].n - 1)
     ELSE t

\* generateId
generateId(title, now) ==
  ToStr(StripHyphens(SlugRuns(title, <<>>))) \o "-" \o Base36(now)

NumberFields == {"price", "quantity", "taxonomyId"}
ListFields == {"tags", "materials", "images"}

\* the value of field f of o is undefined
UndefinedAt(o, f) ==
  IF f \in NumberFields THEN o[f].k = "undef"
  ELSE IF f \in ListFields THEN ~o[f].some
  ELSE FALSE

Null == [k |-> "null", v |-> 0]

\* JSON.parse(JSON.stringify(o)): undefined fields are left out, NaN
\* becomes null
JsonOf(o) ==
  [f \in {g \in DOMAIN o : ~UndefinedAt(o, g)} |->
     IF f \in NumberFields /\ o[f].k = "nan" THEN Null ELSE o[f]]

NoObject == [f \in {} |-> 0]

ObjectFile(o) == [kind |-> "object", obj |-> o, entries |-> <<>>]
ArrayFile(l) == [kind |-> "array", obj |-> NoObject, entries |-> l]
NullFile == [kind |-> "null", obj |-> NoObject, entries |-> <<>>]
GarbageFile == [kind |-> "garbage", obj |-> NoObject, entries |-> <<>>]

\* the file written over the directory f
WriteFile(f, name, content) == (name :> content) @@ f

\* {...value}: the own properties of a parsed JSON value
Spread(c) ==
  IF c.kind = "object" THEN c.obj
  ELSE IF c.kind = "array"
       THEN [k \in {ToString(i - 1) : i \in DOMAIN c.entries} |->
               c.entries[CHOOSE i \in DOMAIN c.entries : ToString(i - 1) = k]]
       ELSE NoObject

Failure(message, err) == Returned(Result(FALSE, "", message, <<err>>))

Done(dir, f, r) == [dirExists |-> dir, files |-> f, ret |-> r]

\* the entry {id, title, price, quantity} of updateCatalogue, as written
CatalogueEntry(id, p) ==
  JsonOf(("id" :> id) @@
         [k \in {"title", "price", "quantity"} \cap DOMAIN p |-> p[k]])

\* catalogue.findIndex(p => p.id === id): 0 when there is none
FindIndex(entries, id) ==
  LET hits == {i \in DOMAIN entries :
                 "id" \in DOMAIN entries[i] /\ entries[i].id = id}
  IN IF hits = {} THEN 0 ELSE CHOOSE i \in hits : \A j \in hits : i <= j

\* updateCatalogue, lines 166-174: the catalogue as the function holds it
\* in memory after the existence test and the guarded read
readCatalogue(f, fail) ==
  IF "products" \notin DOMAIN f THEN ArrayFile(<<>>)
  ELSE IF fail = "readCatalogue" \/ f["products"].kind = "garbage"
       THEN ArrayFile(<<>>)
       ELSE f["products"]

\* updateCatalogue, lines 177-195: the upsert of the entry into the
\* catalogue held in memory, and the write of products.json into f.  fail
\* names the file system call that throws, if any.  The result tells
\* whether the function threw and gives the directory.
upsertCatalogue(parsed, f, id, p, fail) ==
  LET entry  == CatalogueEntry(id, p)
      idx    == FindIndex(parsed.entries, id)
      old    == parsed.entries[idx]
      merged == entry @@
                [k \in DOMAIN old \ {"title", "price", "quantity"} |-> old[k]]
      list   == IF idx > 0 THEN [parsed.entries EXCEPT ![idx] = merged]
                ELSE Append(parsed.entries, entry)
  IN IF parsed.kind # "array" THEN [threw |-> TRUE, files |-> f]
     ELSE IF fail = "writeCatalogue" THEN [threw |-> TRUE, files |-> f]
     ELSE [threw |-> FALSE, files |-> WriteFile(f, "products", ArrayFile(list))]

\* updateCatalogue within one process: nothing happens between its read
\* and its write
updateCatalogue(f, id, p, fail) ==
  upsertCatalogue(readCatalogue(f, fail), f, id, p, fail)

\* WebsiteChannel.createListing
WebsiteCreateListing(dir, f, now, p, fail) ==
  LET id      == generateId(p.title, now)
      payload == JsonOf((("createdAt" :> now) @@ ("updatedAt" :> now))
                        @@ p @@ ("id" :> id))
      f1      == WriteFile(f, id, ObjectFile(payload))
      cat     == updateCatalogue(f1, id, p, fail)
      failed  == "Failed to save product to website channel"
  IN IF ~dir /\ fail = "mkdir" THEN Done(dir, f, Failure(failed, "EACCES"))
     ELSE IF fail = "writeFile" THEN Done(TRUE, f, Failure(failed, "ENOSPC"))
     ELSE IF cat.threw THEN Done(TRUE, cat.files, Failure(failed, "catalogue"))
     ELSE Done(TRUE, cat.files,
               Returned(Result(TRUE, id, "Product saved to " \o id, <<>>)))

NotFound(id) ==
  Returned(Result(FALSE, "", "Product " \o id \o " not found",
                  <<"File not found: " \o id>>))

\* an update that stores the partial product in place of the merged one
WebsiteUpdateReplace(dir, f, now, id, partial, fail) ==
  LET updated == ("updatedAt" :> now) @@ partial
      f1      == WriteFile(f, id, ObjectFile(JsonOf(updated)))
      cat     == updateCatalogue(f1, id, updated, fail)
      failed  == "Failed to update product"
  IN IF id \notin DOMAIN f THEN Done(dir, f, NotFound(id))
     ELSE IF fail = "readFile" \/ f[id].kind = "garbage"
          THEN Done(dir, f, Failure(failed, "read"))
     ELSE IF fail = "writeFile" THEN Done(dir, f, Failure(failed, "ENOSPC"))
     ELSE IF cat.threw THEN Done(dir, cat.files, Failure(failed, "catalogue"))
     ELSE Done(dir, cat.files,
               Returned(Result(TRUE, id, "Product " \o id \o " updated", <<>>)))

\* WebsiteChannel.updateListing
WebsiteUpdateListing(dir, f, now, id, partial, fail) ==
  LET updated == ("updatedAt" :> now) @@ partial @@ Spread(f[id])
      f1      == WriteFile(f, id, ObjectFile(JsonOf(updated)))
      cat     == updateCatalogue(f1, id, updated, fail)
      failed  == "Failed to update product"
  IN IF id \notin DOMAIN f THEN Done(dir, f, NotFound(id))
     ELSE IF fail = "readFile" \/ f[id].kind = "garbage"
          THEN Done(dir, f, Failure(failed, "read"))
     ELSE IF fail = "writeFile" THEN Done(dir, f, Failure(failed, "ENOSPC"))
     ELSE IF cat.threw THEN Done(dir, cat.files, Failure(failed, "catalogue"))
     ELSE Done(dir, cat.files,
               Returned(Result(TRUE, id, "Product " \o id \o " updated", <<>>)))

\* an uploadImages that starts a product file when there is none
WebsiteUploadImagesCreates(dir, f, now, id, urls, fail) ==
  LET existing == IF id \in DOMAIN f THEN Spread(f[id]) ELSE NoObject
      images   == IF "images" \in DOMAIN existing
                  THEN existing.images.list ELSE <<>>
      added    == [i \in 1..Len(urls) |->
                     [url |-> urls[i], rank |-> Len(images) + i]]
      written  == IF id \in DOMAIN f /\ f[id].kind = "array" THEN f[id]
                  ELSE ObjectFile(("images" :> Some(images \o added))
                                  @@ ("updatedAt" :> now) @@ existing)
      failed   == "Failed to add images"
  IN IF id \in DOMAIN f /\ (fail = "readFile" \/ f[id].kind = "garbage")
     THEN Done(dir, f, Failure(failed, "read"))
     ELSE IF id \in DOMAIN f /\ f[id].kind = "null"
          THEN Done(dir, f, Failure(failed, "TypeError"))
     ELSE IF fail = "writeFile" THEN Done(dir, f, Failure(failed, "ENOSPC"))
     ELSE Done(dir, WriteFile(f, id, written),
               Returned(Result(TRUE, id,
                 ToString(Len(urls)) \o " image(s) added to product JSON", <<>>)))

\* an uploadImages that ranks every batch from 1
WebsiteUploadImagesRestart(dir, f, now, id, urls, fail) ==
  LET existing == Spread(f[id])
      images   == IF "images" \in DOMAIN existing
                  THEN existing.images.list ELSE <<>>
      added    == [i \in 1..Len(urls) |->
                     [url |-> urls[i], rank |-> i]]
      written  == IF f[id].kind = "array" THEN f[id]
                  ELSE ObjectFile(("images" :> Some(images \o added))
                                  @@ ("updatedAt" :> now) @@ existing)
      failed   == "Failed to add images"
  IN IF id \notin DOMAIN f THEN Done(dir, f, NotFound(id))
     ELSE IF fail = "readFile" \/ f[id].kind = "garbage"
          THEN Done(dir, f, Failure(failed, "read"))
     ELSE IF f[id].kind = "null" THEN Done(dir, f, Failure(failed, "TypeError"))
     ELSE IF fail = "writeFile" THEN Done(dir, f, Failure(failed, "ENOSPC"))
     ELSE Done(dir, WriteFile(f, id, written),
               Returned(Result(TRUE, id,
                 ToString(Len(urls)) \o " image(s) added to product JSON", <<>>)))

\* WebsiteChannel.uploadImages
WebsiteUploadImages(dir, f, now, id, urls, fail) ==
  LET existing == Spread(f[id])
      images   == IF "images" \in DOMAIN existing
                  THEN existing.images.list ELSE <<>>
      added    == [i \in 1..Len(urls) |->
                     [url |-> urls[i], rank |-> Len(images) + i]]
      written  == IF f[id].kind = "array" THEN f[id]
                  ELSE ObjectFile(("images" :> Some(images \o added))
                                  @@ ("updatedAt" :> now) @@ existing)
      failed   == "Failed to add images"
  IN IF id \notin DOMAIN f THEN Done(dir, f, NotFound(id))
     ELSE IF fail = "readFile" \/ f[id].kind = "garbage"
          THEN Done(dir, f, Failure(failed, "read"))
     ELSE IF f[id].kind = "null" THEN Done(dir, f, Failure(failed, "TypeError"))
     ELSE IF fail = "writeFile" THEN Done(dir, f, Failure(failed, "ENOSPC"))
     ELSE Done(dir, WriteFile(f, id, written),
               Returned(Result(TRUE, id,
                 ToString(Len(urls)) \o " image(s) added to product JSON", <<>>)))

(***************************************************************************)
(* The channel methods called as a library: a caller holding an            *)
(* EtsyService and a WebsiteChannel calls their methods one after the      *)
(* other, each with every outcome of its HTTP or file system calls.        *)
(***************************************************************************)
Text(str) == [i \in 1..Len(str) |-> [ch |-> str[i], n |-> 1]]

Mug ==
  [title |-> Text(<<"M", "u", "g">>), description |-> Rep("d", 4),
   price |-> Num(1000), quantity |-> Num(2),
   tags |-> Absent, materials |-> Absent]

\* a product whose title gives the slug of Mug, and that carries the Etsy
\* field taxonomyId
MugBang ==
  [title |-> Text(<<"m", "u", "g", "!">>), description |-> Rep("d", 2),
   price |-> NaN, quantity |-> Num(0),
   tags |-> Some(<<ShortTag>>), materials |-> Absent,
   taxonomyId |-> Num(0)]

ChannelProducts == { Mug, MugBang }

Partials ==
  { [price |-> Num(500)],
    [title |-> Text(<<"b", "a", "g">>), quantity |-> Num(0)] }

UrlLists == { [i \in 1..n |-> Url(i)] : n \in 0..MaxImages }

CompleteEnv ==
  [ETSY_API_KEY |-> EnvVal("key"), ETSY_TOKEN |-> EnvVal("tok"),
   ETSY_SHOP_ID |-> EnvVal("42")]

\* the file old-0.json of a product created at time 0, with one image
OldProduct ==
  [id |-> "old-0", title |-> Text(<<"o", "l", "d">>),
   description |-> Rep("d", 3), price |-> Num(700), quantity |-> Num(3),
   tags |-> Some(<<ShortTag>>),
   images |-> Some(<<[url |-> Url(1), rank |-> 1]>>),
   createdAt |-> 0, updatedAt |-> 0]

\* a products.json with the entry of another product before that of old-0
OldCatalogue ==
  << [id |-> "other-0", title |-> Text(<<"b", "a", "g">>),
      price |-> Num(100), quantity |-> Num(1)],
     [id |-> "old-0", title |-> OldProduct.title,
      price |-> OldProduct.price, quantity |-> OldProduct.quantity] >>

\* the output directory as the caller finds it: absent, empty, holding a
\* products.json or a product file this program did not write, or holding
\* a product and the catalogue written by earlier runs
InitialDirs ==
  { [dirExists |-> FALSE, files |-> <<>>],
    [dirExists |-> TRUE, files |-> <<>>],
    [dirExists |-> TRUE, files |-> ("products" :> GarbageFile)],
    [dirExists |-> TRUE, files |-> ("products" :> ObjectFile(NoObject))],
    [dirExists |-> TRUE, files |-> ("old-0" :> GarbageFile)],
    [dirExists |-> TRUE, files |-> ("old-0" :> NullFile)],
    [dirExists |-> TRUE,
     files |-> ("old-0" :> ObjectFile(OldProduct))
               @@ ("products" :> ArrayFile(OldCatalogue))] }

ListingIds == (DOMAIN files \ {"products"}) \cup {"nope-0"}

Times == {t \in {clock, clock + 1} : t <= MaxClock}

\* A behaviour exercises one channel object, named by pc.  The two classes
\* share no state (EtsyService holds an HTTP client, WebsiteChannel an
\* output directory), so the calls of one never change what the other does.
ChInit ==
  /\ pc \in {"etsy", "website"}
  /\ input = NoInput
  /\ errors = <<>>
  /\ product = NoProduct
  /\ again = NoProduct
  /\ env = CompleteEnv
  /\ CliIdle
  /\ EtsyIdle
  /\ clock = 0
  /\ created = <<>>
  /\ CfgIdle
  /\ RaceIdle
  /\ \E d \in InitialDirs :
       /\ pc = "etsy" => d = [dirExists |-> FALSE, files |-> <<>>]
       /\ dirExists = d.dirExists
       /\ files = d.files

\* the caller may call a method of the channel: the method called before has ended
CanCall(channel) ==
  /\ pc = channel
  /\ ret.state # "pending"
  /\ ncalls < MaxCalls

\* a website method runs to its end within the call
WebsiteCall(method, id, arg, fail, now, done) ==
  /\ call' = [channel |-> "website", method |-> method, no |-> ncalls + 1,
              listingId |-> id, n |-> 0, arg |-> arg, fault |-> fail,
              outcomes |-> <<>>, response |-> NotReceived]
  /\ ncalls' = ncalls + 1
  /\ clock' = now
  /\ dirExists' = done.dirExists
  /\ files' = done.files
  /\ ret' = done.ret
  /\ created' = IF method = "createListing" /\ done.ret.result.success
                THEN Append(created, done.ret.result.listingId)
                ELSE created
  /\ UNCHANGED <<pc, fnVars, env, cfgVars, raceVars, cliVars, requests, pending>>

CallWebsiteCreateListing ==
  /\ CanCall("website")
  /\ \E p \in ChannelProducts, now \in Times,
        fail \in {"none", "mkdir", "writeFile", "readCatalogue", "writeCatalogue"} :
       WebsiteCall("createListing", "", p, fail, now,
                   WebsiteCreateListing(dirExists, files, now, p, fail))

CallWebsiteUpdateListing ==
  /\ CanCall("website")
  /\ \E id \in ListingIds, partial \in Partials, now \in Times,
        fail \in {"none", "readFile", "writeFile", "readCatalogue", "writeCatalogue"} :
       WebsiteCall("updateListing", id, partial, fail, now,
                   WebsiteUpdateListing(dirExists, files, now, id, partial, fail))

CallWebsiteUploadImages ==
  /\ CanCall("website")
  /\ \E id \in ListingIds, urls \in UrlLists, now \in Times,
        fail \in {"none", "readFile", "writeFile"} :
       WebsiteCall("uploadImages", id, urls, fail, now,
                   WebsiteUploadImages(dirExists, files, now, id, urls, fail))

\* an Etsy method that sends each of its requests twice
EtsyCallTwice(method, id, arg, reqs) ==
  /\ call' = [channel |-> "etsy", method |-> method, no |-> ncalls + 1,
              listingId |-> id, n |-> 2 * Len(reqs), arg |-> arg,
              fault |-> "none", outcomes |-> NoneYet(Len(reqs)),
              response |-> NotReceived]
  /\ ncalls' = ncalls + 1
  /\ requests' = requests \o reqs \o reqs
  /\ pending' = pending \cup {Len(requests) + i : i \in 1..(2 * Len(reqs))}
  /\ ret' = IF reqs = <<>>
            THEN Returned(Result(TRUE, id, "0 image(s) uploaded successfully", <<>>))
            ELSE Pending
  /\ UNCHANGED <<pc, fnVars, env, cfgVars, raceVars, cliVars, webVars>>

\* an Etsy method issues its requests and waits for them
EtsyCall(method, id, arg, reqs) ==
  /\ call' = [channel |-> "etsy", method |-> method, no |-> ncalls + 1,
              listingId |-> id, n |-> Len(reqs), arg |-> arg,
              fault |-> "none", outcomes |-> NoneYet(Len(reqs)),
              response |-> NotReceived]
  /\ ncalls' = ncalls + 1
  /\ requests' = requests \o reqs
  /\ pending' = pending \cup {Len(requests) + i : i \in 1..Len(reqs)}
  /\ ret' = IF reqs = <<>>
            THEN Returned(Result(TRUE, id, "0 image(s) uploaded successfully", <<>>))
            ELSE Pending
  /\ UNCHANGED <<pc, fnVars, env, cfgVars, raceVars, cliVars, webVars>>

CallEtsyCreateListing ==
  /\ CanCall("etsy")
  /\ \E p \in ChannelProducts :
       EtsyCall("createListing", "", p,
                <<Request("POST", "listings", ncalls + 1, 1, toEtsyPayload(p))>>)

CallEtsyUpdateListing ==
  /\ CanCall("etsy")
  /\ \E id \in {"7"}, partial \in Partials :
       EtsyCall("updateListing", id, partial,
                <<Request("PATCH", "listing", ncalls + 1, 1, partial)>>)

CallEtsyUploadImages ==
  /\ CanCall("etsy")
  /\ \E id \in {"7"}, urls \in UrlLists :
       EtsyCall("uploadImages", id, urls, ImageRequests(ncalls + 1, id, urls))

ChNext ==
  \/ CallWebsiteCreateListing
  \/ CallWebsiteUpdateListing
  \/ CallWebsiteUploadImages
  \/ CallEtsyCreateListing
  \/ CallEtsyUpdateListing
  \/ CallEtsyUploadImages
  \/ ListingSettles
  \/ ImageSettles

SpecChannel == ChInit /\ [][ChNext]_vars

(***************************************************************************)
(* Concurrent CLI invocations on the website channel.                      *)
(*                                                                         *)
(* Each process runs createListing once on the same output directory.  A   *)
(* file system call is atomic; the calls of the two processes interleave.  *)
(* The steps of createListing are: ensureOutputDir, generateId and the     *)
(* write of the product file; the read of products.json; the upsert and    *)
(* the write of products.json, followed by the return.                     *)
(***************************************************************************)
Procs == {1, 2}

\* a process: where its createListing is, the product and id it works on,
\* the catalogue it holds in memory, the number of catalogue writes made
\* when it had written its own (0 before), and how the call ended
Proc(at, p, id, catalogue, wrote, r) ==
  [pc |-> at, product |-> p, id |-> id, catalogue |-> catalogue,
   wrote |-> wrote, ret |-> r]

CatalogueWrites == Cardinality({q \in Procs : procs[q].wrote > 0})

RaceInit ==
  /\ pc = "race"
  /\ input = NoInput
  /\ errors = <<>>
  /\ product = NoProduct
  /\ again = NoProduct
  /\ env = CompleteEnv
  /\ CliIdle
  /\ EtsyIdle
  /\ clock = 0
  /\ created = <<>>
  /\ CfgIdle
  /\ procs = [q \in Procs |-> Proc("start", NoProduct, "", ArrayFile(<<>>), 0, Idle)]
  /\ \E d \in InitialDirs : dirExists = d.dirExists /\ files = d.files

\* lines 32-44: the directory is made, the id generated and the product
\* file written
RaceWriteProduct(q) ==
  /\ pc = "race"
  /\ procs[q].pc = "start"
  /\ \E p \in ChannelProducts, now \in Times :
       LET id      == generateId(p.title, now)
           payload == JsonOf((("createdAt" :> now) @@ ("updatedAt" :> now))
                             @@ p @@ ("id" :> id))
       IN /\ clock' = now
          /\ dirExists' = TRUE
          /\ files' = WriteFile(files, id, ObjectFile(payload))
          /\ procs' = [procs EXCEPT ![q] =
                         Proc("written", p, id, ArrayFile(<<>>), 0, Pending)]
  /\ UNCHANGED <<pc, fnVars, env, cfgVars, cliVars, etsyVars, created>>

\* lines 166-174: products.json is read into memory
RaceReadCatalogue(q) ==
  /\ pc = "race"
  /\ procs[q].pc = "written"
  /\ procs' = [procs EXCEPT ![q].pc = "read",
                            ![q].catalogue = readCatalogue(files, "none")]
  /\ UNCHANGED <<pc, fnVars, env, cfgVars, cliVars, etsyVars, webVars>>

\* a process that reads products.json again when it writes it
RaceWriteCatalogueFresh(q) ==
  /\ pc = "race"
  /\ procs[q].pc = "read"
  /\ LET cat == upsertCatalogue(readCatalogue(files, "none"), files,
                                procs[q].id, procs[q].product, "none")
     IN /\ files' = cat.files
        /\ procs' = [procs EXCEPT
             ![q].pc = "done",
             ![q].wrote = IF cat.threw THEN 0 ELSE CatalogueWrites + 1,
             ![q].ret =
               IF cat.threw
               THEN Failure("Failed to save product to website channel",
                            "catalogue")
               ELSE Returned(Result(TRUE, procs[q].id,
                               "Product saved to " \o procs[q].id, <<>>))]
        /\ created' = IF cat.threw THEN created ELSE Append(created, procs[q].id)
  /\ UNCHANGED <<pc, fnVars, env, cfgVars, cliVars, etsyVars, dirExists, clock>>

\* lines 177-195 and 49-59: the entry is upserted into the catalogue held
\* in memory, products.json is written and createListing returns; an
\* exception ends it with a failed result
RaceWriteCatalogue(q) ==
  /\ pc = "race"
  /\ procs[q].pc = "read"
  /\ LET cat == upsertCatalogue(procs[q].catalogue, files,
                                procs[q].id, procs[q].product, "none")
     IN /\ files' = cat.files
        /\ procs' = [procs EXCEPT
             ![q].pc = "done",
             ![q].wrote = IF cat.threw THEN 0 ELSE CatalogueWrites + 1,
             ![q].ret =
               IF cat.threw
               THEN Failure("Failed to save product to website channel",
                            "catalogue")
               ELSE Returned(Result(TRUE, procs[q].id,
                               "Product saved to " \o procs[q].id, <<>>))]
        /\ created' = IF cat.threw THEN created ELSE Append(created, procs[q].id)
  /\ UNCHANGED <<pc, fnVars, env, cfgVars, cliVars, etsyVars, dirExists, clock>>

WriteProduct == \E q \in Procs : RaceWriteProduct(q)
ReadCatalogue == \E q \in Procs : RaceReadCatalogue(q)
WriteCatalogue == \E q \in Procs : RaceWriteCatalogue(q)

RaceNext == WriteProduct \/ ReadCatalogue \/ WriteCatalogue

SpecRace == RaceInit /\ [][RaceNext]_vars

(***************************************************************************)
(* generateId applied to the titles validation accepts.                    *)
(***************************************************************************)
MaxRuns == 3

\* an upper-case letter, a lower-case letter, a digit, and characters
\* outside [a-z0-9]
IdChars == {"M", "u", "7", " ", "!", "-"}

\* the titles of up to MaxRuns runs of one or two equal characters
IdTitles ==
  { s \in UNION { [1..n -> [ch : IdChars, n : 1..2]] : n \in 1..MaxRuns } :
      \A i \in 1..(Len(s) - 1) : s[i].ch # s[i + 1].ch }

\* readings of Date.now() with one, two and three base-36 digits
IdTimes == {0, 35, 36, 1296}

IdInit ==
  /\ pc = "id_input"
  /\ \E s \in IdTitles : input = [AsInput(Mug) EXCEPT !.title = s]
  /\ validateProductInput(input) = <<>>
  /\ errors = <<>>
  /\ product = toProduct(input)
  /\ again = NoProduct
  /\ env = CompleteEnv
  /\ CliIdle
  /\ EtsyIdle
  /\ dirExists = FALSE
  /\ files = <<>>
  /\ clock \in IdTimes
  /\ created = <<>>
  /\ CfgIdle
  /\ RaceIdle

\* createListing, line 34: const id = this.generateId(product.title)
CallGenerateId ==
  /\ pc = "id_input"
  /\ pc' = "id_done"
  /\ created' = <<generateId(product.title, clock)>>
  /\ UNCHANGED <<fnVars, env, cfgVars, raceVars, cliVars, etsyVars,
                 dirExists, files, clock>>

IdNext == CallGenerateId

SpecId == IdInit /\ [][IdNext]_vars

(***************************************************************************)
(* The listing payload of the current EtsyService and of the legacy        *)
(* EtsyService kept in the repository.                                     *)
(***************************************************************************)
\* x || 1 on a number: 0, NaN, undefined and null give 1
OrOne(x) == IF x.k = "num" /\ x.v # 0 THEN x ELSE Num(1)

\* the object literal the legacy createListing posts
legacyPayload(p) ==
  [quantity |-> p.quantity, title |-> p.title,
   description |-> p.description, price |-> p.price,
   who_made |-> "i_did", when_made |-> "2020_2024",
   taxonomy_id |-> OrOne(TaxonomyOf(p)),
   tags |-> p.tags, materials |-> p.materials]

\* a product without taxonomyId, and the same with taxonomyId undefined,
\* 0, 1 and 7
PayloadProducts ==
  {Mug} \cup { ("taxonomyId" :> x) @@ Mug : x \in {Undefined, Num(0), Num(1), Num(7)} }

PayloadInit == ChInit /\ pc = "etsy"

\* EtsyService.createListing
CallCreateListing ==
  /\ CanCall("etsy")
  /\ \E p \in PayloadProducts :
       EtsyCall("createListing", "", p,
                <<Request("POST", "listings", ncalls + 1, 1, toEtsyPayload(p))>>)

\* the legacy EtsyService.createListing
CallLegacyCreateListing ==
  /\ CanCall("etsy")
  /\ \E p \in PayloadProducts :
       /\ call' = [channel |-> "etsy-legacy", method |-> "createListing",
                   no |-> ncalls + 1, listingId |-> "", n |-> 1, arg |-> p,
                   fault |-> "none", outcomes |-> NoneYet(1),
                   response |-> NotReceived]
       /\ ncalls' = ncalls + 1
       /\ requests' = Append(requests,
            Request("POST", "listings", ncalls + 1, 1, legacyPayload(p)))
       /\ pending' = pending \cup {Len(requests) + 1}
       /\ ret' = Pending
  /\ UNCHANGED <<pc, fnVars, env, cfgVars, raceVars, cliVars, webVars>>

\* the request of the legacy createListing completes
LegacySettles ==
  \E i \in pending, oc \in ListingOutcomes :
    /\ call.channel = "etsy-legacy"
    /\ pending' = pending \ {i}
    /\ call' = Completed(i, oc)
    /\ ret' = ListingSettled(oc, "Product listing created successfully")
    /\ UNCHANGED <<pc, fnVars, env, cfgVars, raceVars, cliVars, ncalls,
                   requests, webVars>>

PayloadNext ==
  \/ CallCreateListing
  \/ CallLegacyCreateListing
  \/ ListingSettles
  \/ LegacySettles

SpecPayload == PayloadInit /\ [][PayloadNext]_vars

(***************************************************************************)
(* The website channel on an output directory that starts empty, every     *)
(* file system call succeeding.  The listing id of updateListing and       *)
(* uploadImages is any string of the caller: the name of a file of the     *)
(* directory (products.json is <outputDir>/products.json, so 'products'    *)
(* names it) or a name that has no file.                                   *)
(***************************************************************************)
AnyListingIds == DOMAIN files \cup {"nope-0"}

MirrorInit ==
  /\ pc = "mirror"
  /\ input = NoInput
  /\ errors = <<>>
  /\ product = NoProduct
  /\ again = NoProduct
  /\ env = CompleteEnv
  /\ CliIdle
  /\ EtsyIdle
  /\ clock = 0
  /\ created = <<>>
  /\ CfgIdle
  /\ RaceIdle
  /\ dirExists \in BOOLEAN
  /\ files = <<>>

MirrorCreateListing ==
  /\ pc = "mirror"
  /\ ncalls < MaxCalls
  /\ \E p \in ChannelProducts, now \in Times :
       WebsiteCall("createListing", "", p, "none", now,
                   WebsiteCreateListing(dirExists, files, now, p, "none"))

MirrorUpdateListing ==
  /\ pc = "mirror"
  /\ ncalls < MaxCalls
  /\ \E id \in AnyListingIds, partial \in Partials, now \in Times :
       WebsiteCall("updateListing", id, partial, "none", now,
                   WebsiteUpdateListing(dirExists, files, now, id, partial, "none"))

MirrorUploadImages ==
  /\ pc = "mirror"
  /\ ncalls < MaxCalls
  /\ \E id \in AnyListingIds, urls \in UrlLists, now \in Times :
       WebsiteCall("uploadImages", id, urls, "none", now,
                   WebsiteUploadImages(dirExists, files, now, id, urls, "none"))

MirrorNext == MirrorCreateListing \/ MirrorUpdateListing \/ MirrorUploadImages

SpecMirror == MirrorInit /\ [][MirrorNext]_vars

(***************************************************************************)
(* The configuration by channel: getConfig leaves out the section of a     *)
(* channel whose variables are not set, validateChannelConfig checks the   *)
(* section of one channel.  A section that is left out has present FALSE.  *)
(***************************************************************************)
\* process.env.X taken as a condition: set and not empty
IsSet(v) == v.set /\ v.val # ""

NoEtsy == [present |-> FALSE, apiKey |-> "", token |-> "", shopId |-> ""]

NoPrintful == [present |-> FALSE, apiKey |-> ""]

\* getConfig with optional sections
getChannelConfig(e) ==
  [loaded   |-> TRUE,
   etsy     |-> IF IsSet(e.ETSY_API_KEY)
                THEN [present |-> TRUE,
                      apiKey  |-> e.ETSY_API_KEY.val,
                      token   |-> OrEmpty(e.ETSY_TOKEN),
                      shopId  |-> OrEmpty(e.ETSY_SHOP_ID)]
                ELSE NoEtsy,
   printful |-> IF IsSet(e.PRINTFUL_API_KEY)
                THEN [present |-> TRUE, apiKey |-> e.PRINTFUL_API_KEY.val]
                ELSE NoPrintful,
   website  |-> [outputDir |-> IF IsSet(e.WEBSITE_OUTPUT_DIR)
                               THEN e.WEBSITE_OUTPUT_DIR.val
                               ELSE "./products"]]

RECURSIVE JoinNames(_)
\* missingFields.join(', ')
JoinNames(l) ==
  IF l = <<>> THEN ""
  ELSE IF Len(l) = 1 THEN l[1]
  ELSE l[1] \o ", " \o JoinNames(Tail(l))

\* !config.etsy?.field
EtsyFieldMissing(cfg, field) == ~cfg.etsy.present \/ cfg.etsy[field] = ""

\* validateChannelConfig: the outcome tells whether the function threw, and
\* gives the list missingFields and the message of the error
validateChannelConfig(cfg, channel) ==
  LET missing ==
        IF channel = "etsy"
        THEN (IF EtsyFieldMissing(cfg, "apiKey")
              THEN <<"ETSY_API_KEY">> ELSE <<>>)
             \o (IF EtsyFieldMissing(cfg, "token")
                 THEN <<"ETSY_TOKEN">> ELSE <<>>)
             \o (IF EtsyFieldMissing(cfg, "shopId")
                 THEN <<"ETSY_SHOP_ID">> ELSE <<>>)
        ELSE <<>>
  IN [channel |-> channel,
      threw   |-> Len(missing) > 0,
      missing |-> missing,
      message |-> IF Len(missing) > 0
                  THEN "Missing required Etsy configuration: "
                       \o JoinNames(missing)
                       \o "\nPlease set these in your .env file"
                  ELSE ""]

\* validateConfig, the deprecated name of the check of the etsy channel
validateConfig(cfg) == validateChannelConfig(cfg, "etsy")

EnvValues == { EnvUnset, EnvVal(""), EnvVal("x") }

ConfigEnvs ==
  [ETSY_API_KEY : EnvValues, ETSY_TOKEN : EnvValues, ETSY_SHOP_ID : EnvValues,
   PRINTFUL_API_KEY : {EnvUnset, EnvVal("pf")},
   WEBSITE_OUTPUT_DIR : {EnvUnset, EnvVal("out")}]

ChannelNames == {"etsy", "website", "shopify"}

CfgInit ==
  /\ pc = "cfg_env"
  /\ env \in ConfigEnvs
  /\ input = NoInput
  /\ errors = <<>>
  /\ product = NoProduct
  /\ again = NoProduct
  /\ CliIdle
  /\ EtsyIdle
  /\ WebIdle
  /\ CfgIdle
  /\ RaceIdle

CallGetConfig ==
  /\ pc = "cfg_env"
  /\ config' = getChannelConfig(env)
  /\ pc' = "cfg_loaded"
  /\ UNCHANGED <<check, fnVars, env, raceVars, cliVars, etsyVars, webVars>>

CallValidateChannelConfig ==
  /\ pc = "cfg_loaded"
  /\ \E channel \in ChannelNames :
       check' = validateChannelConfig(config, channel)
  /\ pc' = "cfg_checked"
  /\ UNCHANGED <<config, fnVars, env, raceVars, cliVars, etsyVars, webVars>>

CallValidateConfig ==
  /\ pc = "cfg_loaded"
  /\ check' = validateConfig(config)
  /\ pc' = "cfg_checked"
  /\ UNCHANGED <<config, fnVars, env, raceVars, cliVars, etsyVars, webVars>>

CfgNext == CallGetConfig \/ CallValidateChannelConfig \/ CallValidateConfig

SpecConfig == CfgInit /\ [][CfgNext]_vars

(***************************************************************************)
(* The two checks of the Etsy configuration, on a Config built by the      *)
(* caller.                                                                 *)
(***************************************************************************)
\* an isConfigured that does not look at the shop id
isConfiguredNoShop(cfg) ==
  /\ cfg.etsy.present
  /\ cfg.etsy.apiKey # ""
  /\ cfg.etsy.token # ""

\* EtsyService.isConfigured
isConfigured(cfg) ==
  /\ cfg.etsy.present
  /\ cfg.etsy.apiKey # ""
  /\ cfg.etsy.token # ""
  /\ cfg.etsy.shopId # ""

\* the Config values: the etsy section absent, or present with each field
\* empty or not
ConfigValues ==
  [loaded   : {TRUE},
   etsy     : {NoEtsy}
              \cup [present : {TRUE}, apiKey : {"", "key"},
                    token : {"", "tok"}, shopId : {"", "42"}],
   printful : {NoPrintful, [present |-> TRUE, apiKey |-> "pf"]},
   website  : {[outputDir |-> "./products"], [outputDir |-> "out"]}]

\* the caller holds a Config and an EtsyService constructed from it
CheckInit ==
  /\ pc = "cfg_loaded"
  /\ env = NoEnv
  /\ config \in ConfigValues
  /\ check = NoCheck
  /\ RaceIdle
  /\ input = NoInput
  /\ errors = <<>>
  /\ product = NoProduct
  /\ again = NoProduct
  /\ CliIdle
  /\ EtsyIdle
  /\ WebIdle

\* etsyService.isConfigured(), called after the check of a channel
CallIsConfigured ==
  /\ pc = "cfg_checked"
  /\ pc' = "cfg_asked"
  /\ ret' = Returned(isConfigured(config))
  /\ UNCHANGED <<fnVars, env, cfgVars, raceVars, cliVars, call, ncalls,
                 requests, pending, webVars>>

CheckNext == CallValidateChannelConfig \/ CallValidateConfig \/ CallIsConfigured

SpecCheck == CheckInit /\ [][CheckNext]_vars

(***************************************************************************)
(* PrintfulService.                                                        *)
(*                                                                         *)
(* A value read from a response body is a record with its kind k:          *)
(* "object", "array", "null", "undef" (the property is absent) or          *)
(* "scalar" (a string, number or boolean).  An item carries the four       *)
(* properties the service reads, each a number, a string (Str(i), the i-th *)
(* string) or Undefined.                                                   *)
(***************************************************************************)
MaxItems == 2

Str(i) == [k |-> "str", v |-> i]

Item(k, id, name, price, thumb) ==
  [k |-> k, id |-> id, name |-> name, retail_price |-> price,
   thumbnail_url |-> thumb]

NoItem(k) == Item(k, Undefined, Undefined, Undefined, Undefined)

\* the items a response may hold: a full product, one without thumbnail,
\* one without any of the properties, null, and a scalar
Items ==
  { Item("object", Num(1), Str(1), Num(1500), Str(2)),
    Item("object", Num(2), Str(3), Num(900), Undefined),
    NoItem("object"), NoItem("null"), NoItem("scalar") }

ItemLists == UNION { [1..n -> Items] : n \in 0..MaxItems }

\* items are the elements of an array; item holds the four properties as
\* they read on the value itself (all Undefined on an array or a scalar)
ResultValue(k, items, item) == [k |-> k, items |-> items, item |-> item]

\* response.data.result: an array of items, one item, or absent
ResultValues ==
  { ResultValue("array", l, NoItem("undef")) : l \in ItemLists }
  \cup { ResultValue(i.k, <<>>, i) : i \in Items }
  \cup { ResultValue("undef", <<>>, NoItem("undef")) }

\* response.data: an object with its result, or null
NullBody ==
  [k |-> "null", result |-> ResultValue("undef", <<>>, NoItem("undef"))]

Bodies == { [k |-> "object", result |-> r] : r \in ResultValues } \cup {NullBody}

\* the outcomes of client.get: a 2xx response with a body, or a rejection
PrintfulOutcomes ==
  { Ok(b) : b \in Bodies }
  \cup { Outcome("status", 404, "Not Found", NullBody, "Request failed"),
         Outcome("noResponse", 0, "", NullBody, "Network Error") }

\* no response yet
NoResponse == Outcome("none", 0, "", NullBody, "")

\* reading a property of x throws a TypeError
ReadThrows(x) == x.k \in {"null", "undef"}

\* the object literal built from an item or from the result
PrintfulProduct(item) ==
  [syncVariantId |-> item.id, name |-> item.name,
   price |-> item.retail_price, image |-> item.thumbnail_url]

\* what a method resolves with: a list of products, one product, or null
ProductList(l) == [k |-> "array", items |-> l, item |-> PrintfulProduct(NoItem("undef"))]
OneProduct(p) == [k |-> "object", items |-> <<>>, item |-> p]
NullProduct == [k |-> "null", items |-> <<>>, item |-> PrintfulProduct(NoItem("undef"))]

\* the try block of getSyncVariants throws: the request was rejected, or
\* response.data.result.map(...) raised a TypeError
SyncVariantsThrows(oc) ==
  \/ oc.kind # "ok"
  \/ ReadThrows(oc.data)
  \/ oc.data.result.k # "array"
  \/ \E i \in DOMAIN oc.data.result.items : ReadThrows(oc.data.result.items[i])

\* the try block of getProductInfo throws
ProductInfoThrows(oc) ==
  \/ oc.kind # "ok"
  \/ ReadThrows(oc.data)
  \/ ReadThrows(oc.data.result)

\* getSyncVariants without its catch block
getSyncVariantsUncaught(oc) ==
  IF SyncVariantsThrows(oc)
  THEN Threw
  ELSE Returned(ProductList([i \in DOMAIN oc.data.result.items |->
                               PrintfulProduct(oc.data.result.items[i])]))

getSyncVariants(oc) ==
  IF SyncVariantsThrows(oc)
  THEN Returned(ProductList(<<>>))
  ELSE Returned(ProductList([i \in DOMAIN oc.data.result.items |->
                               PrintfulProduct(oc.data.result.items[i])]))

getProductInfo(oc) ==
  IF ProductInfoThrows(oc)
  THEN Returned(NullProduct)
  ELSE Returned(OneProduct(PrintfulProduct(oc.data.result.item)))

\* the constructor returns: config.printful.apiKey is truthy
PrintfulConstructed(cfg) == cfg.printful.present /\ cfg.printful.apiKey # ""

ProviderIds == {1, 2}

\* the service after construction, no method called yet
PfInit ==
  /\ pc = "printful"
  /\ env \in ConfigEnvs
  /\ env.ETSY_API_KEY = EnvUnset
  /\ env.ETSY_TOKEN = EnvUnset
  /\ env.ETSY_SHOP_ID = EnvUnset
  /\ config = getChannelConfig(env)
  /\ PrintfulConstructed(config)
  /\ check = NoCheck
  /\ RaceIdle
  /\ input = NoInput
  /\ errors = <<>>
  /\ product = NoProduct
  /\ again = NoProduct
  /\ CliIdle
  /\ EtsyIdle
  /\ WebIdle

\* a method issues its one GET request and waits for it
PrintfulCall(method, path, id) ==
  /\ CanCall("printful")
  /\ call' = [channel |-> "printful", method |-> method, no |-> ncalls + 1,
              listingId |-> "", n |-> 1, arg |-> id, fault |-> "none",
              outcomes |-> NoneYet(1), response |-> NoResponse]
  /\ ncalls' = ncalls + 1
  /\ requests' = Append(requests,
                        Request("GET", path, ncalls + 1, 1, <<>>))
  /\ pending' = pending \cup {Len(requests) + 1}
  /\ ret' = Pending
  /\ UNCHANGED <<pc, fnVars, env, cfgVars, raceVars, cliVars, webVars>>

CallGetSyncVariants == PrintfulCall("getSyncVariants", "/store/products", 0)

CallGetProductInfo ==
  \E id \in ProviderIds :
    PrintfulCall("getProductInfo", "/store/products/" \o ToString(id), id)

\* the GET request completes with outcome oc, kept in the call record
PrintfulSettles ==
  \E i \in pending, oc \in PrintfulOutcomes :
    /\ pc = "printful"
    /\ pending' = pending \ {i}
    /\ call' = [call EXCEPT !.outcomes[1] = oc.kind, !.response = oc]
    /\ ret' = IF call.method = "getSyncVariants"
              THEN getSyncVariants(oc)
              ELSE getProductInfo(oc)
    /\ UNCHANGED <<pc, fnVars, env, cfgVars, raceVars, cliVars, ncalls, requests, webVars>>

PfNext == CallGetSyncVariants \/ CallGetProductInfo \/ PrintfulSettles

SpecProvider == PfInit /\ [][PfNext]_vars

(***************************************************************************)
(* Every caller of an external service: the commands, a caller of the      *)
(* channel methods, and a caller of the Printful methods.                  *)
(***************************************************************************)
CallsInit == Init \/ ChInit \/ PfInit

CallsNext == Next \/ ChNext \/ PfNext

SpecCalls == CallsInit /\ [][CallsNext]_vars

(***************************************************************************)
(* Properties of the validation utilities (checked under SpecFn).          *)
(***************************************************************************)
Validated == pc \in {"fn_validated", "fn_converted", "fn_reconverted"}
Converted == pc \in {"fn_converted", "fn_reconverted"}

Has(m) == \E i \in DOMAIN errors : errors[i] = m
Count(m) == Cardinality({i \in DOMAIN errors : errors[i] = m})

\* the text is empty or made of white space only
Blank(s) == \A i \in DOMAIN s : s[i].ch \in WhiteSpace

\* the text neither begins nor ends with white space
NoEdgeSpace(s) ==
  s = <<>> \/ (s[1].ch \notin WhiteSpace /\ s[Len(s)].ch \notin WhiteSpace)

\* t is s without its leading and trailing white space
IsTrimOf(t, s) ==
  /\ NoEdgeSpace(t)
  /\ \E i \in 1..(Len(s) + 1), j \in 0..Len(s) :
       /\ t = (IF i > j THEN <<>> ELSE SubSeq(s, i, j))
       /\ \A k \in 1..(i - 1) : k \in DOMAIN s => s[k].ch \in WhiteSpace
       /\ \A k \in (j + 1)..Len(s) : s[k].ch \in WhiteSpace

IsTrimOfEach(o, p) ==
  /\ o.some = p.some
  /\ Len(o.list) = Len(p.list)
  /\ \A i \in DOMAIN p.list : IsTrimOf(o.list[i], p.list[i])

TagTooLong(k) ==
  input.tags.some /\ k \in DOMAIN input.tags.list
  /\ StrLen(input.tags.list[k]) > 20

TagPositions == 1..(MaxTags + 2)

MessageOrder ==
  << "Title is required", "Title must be 140 characters or less",
     "Description is required", "Price is required",
     "Price must be greater than 0", "Quantity is required",
     "Quantity must be 0 or greater", "Maximum 13 tags allowed" >>
  \o [k \in TagPositions |-> TagMessage(k)]

Rank(m) == CHOOSE i \in DOMAIN MessageOrder : MessageOrder[i] = m

\* C2: validateProductInput collects every violation, whatever the other
\* fields are: each violated rule (title, description, price, quantity, tag
\* count, each over-long tag) has its message in the result, and the messages
\* come in the order title, description, price, quantity, tag count, tags.
C2_AllViolationsCollected ==
  Validated =>
    /\ (Blank(input.title) \/ StrLen(input.title) > 140)
         => (Has("Title is required")
             \/ Has("Title must be 140 characters or less"))
    /\ Blank(input.description) => Has("Description is required")
    /\ (input.price.k = "num" /\ input.price.v <= 0)
         => Has("Price must be greater than 0")
    /\ (input.quantity.k = "num" /\ input.quantity.v < 0)
         => Has("Quantity must be 0 or greater")
    /\ (input.tags.some /\ Len(input.tags.list) > 13)
         => Has("Maximum 13 tags allowed")
    /\ \A k \in TagPositions : TagTooLong(k) => Has(TagMessage(k))
    /\ \A i \in DOMAIN errors :
         \E r \in DOMAIN MessageOrder : MessageOrder[r] = errors[i]
    /\ \A i, j \in DOMAIN errors :
         i < j => Rank(errors[i]) < Rank(errors[j])

C2_Witness ==
  /\ Validated
  /\ Len(errors) = 7
  /\ errors[1] = "Title is required"
  /\ errors[7] = TagMessage(MaxTags + 1)

\* C3 as stated: a blank title gives 'Title is required', every title of more
\* than 140 characters gives the length message, a title of exactly 140
\* characters never gives the length message.
C3_Original ==
  Validated =>
    /\ Blank(input.title) => Has("Title is required")
    /\ StrLen(input.title) > 140
         => Has("Title must be 140 characters or less")
    /\ StrLen(input.title) = 140
         => ~Has("Title must be 140 characters or less")

\* C3 amended: a blank title gives 'Title is required'; a title of more than
\* 140 characters that is not blank gives the length message; a blank title
\* and a title of at most 140 characters never give the length message.
C3_TitleRule ==
  Validated =>
    /\ Blank(input.title) => Has("Title is required")
    /\ (StrLen(input.title) > 140 /\ ~Blank(input.title))
         => Has("Title must be 140 characters or less")
    /\ (StrLen(input.title) <= 140 \/ Blank(input.title))
         => ~Has("Title must be 140 characters or less")

C3_Witness ==
  /\ Validated
  /\ StrLen(input.title) = 141
  /\ ~Blank(input.title)
  /\ Has("Title must be 140 characters or less")

\* C4: price <= 0 gives 'Price must be greater than 0'; price > 0 (down to
\* the smallest positive step) gives no price message.
C4_PriceRule ==
  Validated =>
    /\ (input.price.k = "num" /\ input.price.v <= 0)
         => Has("Price must be greater than 0")
    /\ (input.price.k = "num" /\ input.price.v > 0)
         => (~Has("Price must be greater than 0") /\ ~Has("Price is required"))

C4_Witness ==
  /\ Validated
  /\ input.price = Num(0)
  /\ Has("Price must be greater than 0")

\* C5: quantity < 0 gives 'Quantity must be 0 or greater'; quantity >= 0
\* (0 included) gives no quantity message.
C5_QuantityRule ==
  Validated =>
    /\ (input.quantity.k = "num" /\ input.quantity.v < 0)
         => Has("Quantity must be 0 or greater")
    /\ (input.quantity.k = "num" /\ input.quantity.v >= 0)
         => (~Has("Quantity must be 0 or greater")
             /\ ~Has("Quantity is required"))

C5_Witness ==
  /\ Validated
  /\ input.quantity = Num(0)
  /\ ~Has("Quantity must be 0 or greater")

\* C6: 'Maximum 13 tags allowed' is present exactly when there are more than
\* 13 tags; 'Tag k exceeds 20 characters' is present, once, exactly for the
\* 1-based positions k of the tags of more than 20 characters; 13 tags of at
\* most 20 characters give no tag message.
C6_TagRules ==
  Validated =>
    /\ Has("Maximum 13 tags allowed")
         <=> (input.tags.some /\ Len(input.tags.list) > 13)
    /\ \A k \in 0..(MaxTags + 2) :
         Count(TagMessage(k)) = (IF TagTooLong(k) THEN 1 ELSE 0)

C6_Witness ==
  /\ Validated
  /\ Len(input.tags.list) = 14
  /\ Has("Maximum 13 tags allowed")
  /\ Has(TagMessage(14))
  /\ ~Has(TagMessage(13))

\* C7: toProduct returns the trimmed title and description, the price and
\* quantity unchanged, the tags and materials trimmed entry by entry (same
\* length, same order), and an absent list stays absent.
C7_ToProductMapping ==
  Converted =>
    /\ IsTrimOf(product.title, input.title)
    /\ IsTrimOf(product.description, input.description)
    /\ product.price = input.price
    /\ product.quantity = input.quantity
    /\ IsTrimOfEach(product.tags, input.tags)
    /\ IsTrimOfEach(product.materials, input.materials)

C7_Witness ==
  /\ Converted
  /\ product.title # input.title
  /\ product.title # <<>>
  /\ product.tags.some /\ product.tags.list # input.tags.list
  /\ product.materials.some /\ product.materials.list # input.materials.list

TrimmedInput ==
  /\ NoEdgeSpace(input.title)
  /\ NoEdgeSpace(input.description)
  /\ \A i \in DOMAIN input.tags.list : NoEdgeSpace(input.tags.list[i])
  /\ \A i \in DOMAIN input.materials.list :
       NoEdgeSpace(input.materials.list[i])

\* C8: toProduct applied to the result of toProduct returns the same Product,
\* and on an input whose texts and list entries are already trimmed it
\* returns the fields of the input.
C8_ToProductIdempotent ==
  pc = "fn_reconverted" =>
    /\ again = product
    /\ TrimmedInput =>
         /\ product.title = input.title
         /\ product.description = input.description
         /\ product.price = input.price
         /\ product.quantity = input.quantity
         /\ product.tags = input.tags
         /\ product.materials = input.materials

C8_Witness ==
  /\ pc = "fn_reconverted"
  /\ product.title # input.title
  /\ product.description # input.description
  /\ again = product

(***************************************************************************)
(* Properties of the commands (checked under Spec).                        *)
(***************************************************************************)
Called(ev) == {i \in DOMAIN log : log[i].ev = ev}

\* every variable the etsy channel needs is set to a non-empty value
EnvComplete ==
  \A name \in {"ETSY_API_KEY", "ETSY_TOKEN", "ETSY_SHOP_ID"} :
    env[name].set /\ env[name].val # ""

\* C1: every Product a command constructs satisfies the data-model
\* invariants: toProduct is called only after validateProductInput returned
\* the empty list, and then the title is non-empty after trimming and of at
\* most 140 characters, the description non-empty after trimming, price > 0,
\* quantity >= 0, at most 13 tags, each of at most 20 characters.
C1_ProductInvariants ==
  Called("toProduct") # {} =>
    /\ errors = <<>>
    /\ ~Blank(product.title)
    /\ StrLen(product.title) <= 140
    /\ ~Blank(product.description)
    /\ product.price.k = "num" /\ product.price.v > 0
    /\ product.quantity.k = "num" /\ product.quantity.v >= 0
    /\ Len(product.tags.list) <= 13
    /\ \A i \in DOMAIN product.tags.list : StrLen(product.tags.list[i]) <= 20

\* C10: in every run of add-product createListing is called at most once,
\* only after validateProductInput returned no errors and, outside dry-run
\* mode, after the configuration check passed; when validation fails or a
\* required variable is missing the command exits non-zero and no channel
\* call has been made.
C10_CreateListingGuarded ==
  cmd = "add-product" =>
    /\ Cardinality(Called("createListing")) <= 1
    /\ Cardinality({i \in DOMAIN requests : requests[i].path = "listings"}) <= 1
    /\ \A i \in Called("createListing") :
         /\ \E j \in 1..(i - 1) : log[j] = Event("validateProductInput", TRUE)
         /\ errors = <<>>
         /\ ~opts.dryRun =>
              /\ \E j \in 1..(i - 1) : log[j] = Event("validateConfig", TRUE)
              /\ EnvComplete
    /\ (errors # <<>> \/ (~opts.dryRun /\ ~EnvComplete)) =>
         /\ pc = "exited"
         /\ exitCode # 0
         /\ Called("createListing") = {}
         /\ Called("uploadImages") = {}
         /\ requests = <<>>

C10_Witness ==
  /\ cmd = "add-product"
  /\ Called("createListing") # {}
  /\ Len(requests) = 1
  /\ pc = "exited"
  /\ exitCode = 0

\* the image URLs the command was given
SuppliedImages == IF input.images.some THEN input.images.list ELSE <<>>

\* the requests issued after the POST of the listing
UploadRequests == SubSeq(requests, 2, Len(requests))

\* what C11 says of a call of uploadImages, whenever one is made: it comes
\* once, after createListing has returned, with the listing id createListing
\* returned and the supplied URLs in their order
UploadWellFormed ==
  /\ Cardinality(Called("uploadImages")) <= 1
  /\ \A i \in Called("uploadImages") :
       /\ \E j \in 1..(i - 1) : log[j].ev = "createListing"
       /\ 1 \notin pending
       /\ result.success
       /\ Len(UploadRequests) = Len(SuppliedImages)
       /\ \A k \in DOMAIN UploadRequests :
            /\ UploadRequests[k].method = "POST"
            /\ UploadRequests[k].path
                 = "listings/" \o result.listingId \o "/images"
            /\ UploadRequests[k].body.image_url = SuppliedImages[k]
  /\ Called("uploadImages") = {} => Len(requests) <= 1

\* C11 as stated: in add-product uploadImages is called exactly when
\* createListing returned success and at least one image URL was supplied
\* (once, after createListing, with its listing id and the URLs in order).
C11_Original ==
  cmd = "add-product" =>
    /\ UploadWellFormed
    /\ Called("uploadImages") # {}
         <=> (result.success /\ Len(SuppliedImages) > 0)

\* C11 amended: uploadImages is called exactly when createListing returned
\* success together with a non-empty listing id and at least one image URL
\* was supplied; it is called once, after createListing has returned, with
\* that listing id and the supplied URLs in their order, and never when
\* createListing failed.
C11_UploadImagesGuarded ==
  cmd = "add-product" =>
    /\ UploadWellFormed
    /\ Called("uploadImages") # {}
         <=> (result.success /\ result.listingId # ""
              /\ Len(SuppliedImages) > 0)

C11_Witness ==
  /\ cmd = "add-product"
  /\ Called("uploadImages") # {}
  /\ result.listingId = "7"
  /\ Len(SuppliedImages) = 2
  /\ Len(requests) = 3
  /\ pc = "exited"

\* C12: the exit status of add-product is 0 exactly when the input is valid
\* and either the run is a dry run or createListing reported success,
\* whatever the image upload did; it is non-zero on a validation failure, on
\* missing configuration in a normal run and when createListing reports
\* failure.
C12_ExitStatus ==
  (cmd = "add-product" /\ pc = "exited") =>
    /\ exitCode = 0
         <=> (errors = <<>> /\ (opts.dryRun \/ result.success))
    /\ errors # <<>> => exitCode # 0
    /\ (~opts.dryRun /\ ~EnvComplete) => exitCode # 0
    /\ (Called("createListing") # {} /\ ~result.success) => exitCode # 0

\* C13: a run of add-product with --dry-run has no external effect, whatever
\* the input and the configuration: it builds no request, calls neither
\* createListing nor uploadImages and writes no file; with valid input it
\* ends with exit status 0 even when credentials are missing, with invalid
\* input it ends with a non-zero status.
C13_DryRunNoEffect ==
  (cmd = "add-product" /\ opts.dryRun) =>
    /\ requests = <<>>
    /\ pending = {}
    /\ ncalls = 0
    /\ Called("createListing") = {}
    /\ Called("uploadImages") = {}
    /\ Called("validateConfig") = {}
    /\ ~dirExists /\ files = <<>>
    /\ pc = "exited"
    /\ errors = <<>> => exitCode = 0
    /\ errors # <<>> => exitCode > 0

C13_Witness ==
  /\ cmd = "add-product"
  /\ opts.dryRun
  /\ ~EnvComplete
  /\ opts.images.some
  /\ errors = <<>>
  /\ exitCode = 0

(***************************************************************************)
(* Properties of the channels (checked under SpecChannel).                 *)
(***************************************************************************)
\* C9: no channel method raises: whatever the outcome of its HTTP call or
\* file operation, createListing, updateListing and uploadImages of
\* EtsyService and of WebsiteChannel end by returning a result, and a failed
\* result has a non-empty errors list.
C9_ChannelMethodsNeverThrow ==
  /\ ret.state # "threw"
  /\ (ret.state = "returned" /\ ~ret.result.success)
       => Len(ret.result.errors) > 0

\* the website method called last has returned success
WebsiteSucceeded(method) ==
  /\ call.channel = "website"
  /\ call.method = method
  /\ ret.state = "returned"
  /\ ret.result.success

\* the file holds a JSON object with the fields of q named in F, equal
HoldsFields(name, F, q) ==
  /\ name \in DOMAIN files
  /\ files[name].kind = "object"
  /\ \A f \in F : f \in DOMAIN files[name].obj /\ files[name].obj[f] = q[f]

\* the catalogue entries with the given id
CatalogueEntries(id) ==
  IF "products" \in DOMAIN files /\ files["products"].kind = "array"
  THEN {i \in DOMAIN files["products"].entries :
          "id" \in DOMAIN files["products"].entries[i]
          /\ files["products"].entries[i].id = id}
  ELSE {}

\* C14: after a successful WebsiteChannel.createListing(product) the output
\* directory exists, the file <listingId>.json holds id = listingId and the
\* title, price and quantity of the product, and products.json has an entry
\* {id: listingId, title, price, quantity} with the same values.
C14_CreateReadRoundTrip ==
  WebsiteSucceeded("createListing") =>
    LET id == ret.result.listingId
        p  == call.arg
    IN /\ dirExists
       /\ HoldsFields(id, {"title", "price", "quantity"}, p)
       /\ files[id].obj.id = id
       /\ \E i \in CatalogueEntries(id) :
            LET e == files["products"].entries[i]
            IN \A f \in {"title", "price", "quantity"} :
                 f \in DOMAIN e /\ e[f] = p[f]

\* C15: two successful calls of WebsiteChannel.createListing on the same
\* directory, whatever the two products (equal titles or titles with the
\* same slug included) and the clock readings, return two different listing
\* ids and leave two product files and two catalogue entries: the second
\* create overwrites neither the file nor the entry of the first.
C15_DistinctListings ==
  (WebsiteSucceeded("createListing") /\ Len(created) >= 2) =>
    \A i, j \in DOMAIN created :
      i < j =>
        /\ created[i] # created[j]
        /\ created[i] \in DOMAIN files
        /\ created[j] \in DOMAIN files
        /\ CatalogueEntries(created[i]) # {}
        /\ CatalogueEntries(created[j]) # {}

\* the entries of products.json in the directory f, none when the file is
\* absent or is no JSON array
EntriesOf(f) ==
  IF "products" \in DOMAIN f /\ f["products"].kind = "array"
  THEN f["products"].entries ELSE <<>>

HasId(e, id) == "id" \in DOMAIN e /\ e.id = id

\* a step in which WebsiteChannel.updateListing, called on the file of a
\* product, returns success (every file system call of the step succeeding)
UpdateStep ==
  /\ ncalls' = ncalls + 1
  /\ call'.channel = "website"
  /\ call'.method = "updateListing"
  /\ call'.fault = "none"
  /\ ret'.state = "returned"
  /\ ret'.result.success
  /\ files[call'.listingId].kind = "object"

\* the effect C16 states for such a step
UpdateFrame ==
  LET id   == call'.listingId
      part == call'.arg
      old  == files[id].obj
      new  == files'[id].obj
      oc   == EntriesOf(files)
      nc   == EntriesOf(files')
  IN /\ files'[id].kind = "object"
     /\ DOMAIN new = DOMAIN old \cup DOMAIN part \cup {"updatedAt"}
     /\ \A f \in DOMAIN part : new[f] = part[f]
     /\ new.updatedAt = clock'
     /\ \A f \in DOMAIN old \ (DOMAIN part \cup {"updatedAt"}) :
          new[f] = old[f]
     /\ DOMAIN files' = DOMAIN files \cup {"products"}
     /\ \A n \in DOMAIN files \ {id, "products"} : files'[n] = files[n]
     /\ files'["products"].kind = "array"
     /\ \E i \in DOMAIN nc : HasId(nc[i], id)
     /\ \A i \in DOMAIN nc :
          IF HasId(nc[i], id)
          THEN \A f \in {"title", "price", "quantity"} :
                 IF f \in DOMAIN new
                 THEN f \in DOMAIN nc[i] /\ nc[i][f] = new[f]
                 ELSE f \notin DOMAIN nc[i]
          ELSE i \in DOMAIN oc /\ nc[i] = oc[i]
     /\ \A i \in DOMAIN oc :
          ~HasId(oc[i], id) => (i \in DOMAIN nc /\ nc[i] = oc[i])

RequestsOfCall == {i \in DOMAIN requests : requests[i].call = call.no}

EtsyUploadCalled == call.channel = "etsy" /\ call.method = "uploadImages"

UploadSucceeded == ret.state = "returned" /\ ret.result.success

\* the call ended without success: a failed result or a rejection
UploadFailed ==
  \/ ret.state = "returned" /\ ~ret.result.success
  \/ ret.state = "threw"

EtsyVariables == <<"ETSY_API_KEY", "ETSY_TOKEN", "ETSY_SHOP_ID">>

\* the variable is unset or empty in the environment
MissingInEnv(name) == ~env[name].set \/ env[name].val = ""

\* C17: on a config built by getConfig from the environment, the check of
\* the etsy channel fails exactly when one of ETSY_API_KEY, ETSY_TOKEN,
\* ETSY_SHOP_ID is unset or empty, and its message names every missing
\* variable, in that order, and no variable that is set; the check of the
\* website channel never fails.
C17_ConfigCheck ==
  pc = "cfg_checked" =>
    /\ check.channel = "etsy" =>
         /\ check.threw <=> \E i \in 1..3 : MissingInEnv(EtsyVariables[i])
         /\ check.threw =>
              check.missing = SelectSeq(EtsyVariables, MissingInEnv)
    /\ check.channel = "website" => ~check.threw

(***************************************************************************)
(* Properties of validate-product (checked under Spec).                    *)
(***************************************************************************)
ValidateProductExited == cmd = "validate-product" /\ pc = "exited"

Logged(ev) == \E i \in 1..Len(log) : log[i].ev = ev

\* C20: validate-product exits with status 1 when validateProductInput
\* returns at least one violation of its input and with status 0 when it
\* returns none; either way the run issues no request and leaves the output
\* directory as it was, and toProduct is called only on a valid input.
C20_ValidateProductExit ==
  ValidateProductExited =>
    /\ input = ProductInputOf(opts)
    /\ errors = validateProductInput(input)
    /\ exitCode = IF Len(validateProductInput(input)) >= 1 THEN 1 ELSE 0
    /\ ncalls = 0 /\ requests = <<>> /\ pending = {}
    /\ ~dirExists /\ files = <<>>
    /\ Logged("toProduct") <=> validateProductInput(input) = <<>>
    /\ Logged("toProduct") => product = toProduct(input)

\* a run on an input with two violations ended with status 1, and never
\* built a product
C20_Witness ==
  /\ ValidateProductExited
  /\ Len(errors) = 2
  /\ exitCode = 1
  /\ ~Logged("toProduct")
  /\ product = NoProduct

(***************************************************************************)
(* Properties of the Printful provider (checked under SpecProvider).       *)
(***************************************************************************)
PrintfulEnded(method) ==
  /\ call.channel = "printful"
  /\ call.method = method
  /\ ret.state \notin {"idle", "pending"}

\* the GET request was rejected, or its response has no body
NoBody(oc) == oc.kind # "ok" \/ oc.data.k = "null"

\* the value is null or undefined
Nullish(x) == x.k \in {"null", "undef"}

\* the product carries the four properties of the item
MapsItem(p, item) ==
  /\ p.syncVariantId = item.id
  /\ p.name = item.name
  /\ p.price = item.retail_price
  /\ p.image = item.thumbnail_url

\* C19: a Printful method never throws or rejects.  getSyncVariants
\* returns an empty list when the GET request fails, the response has no
\* body, its result is not an array or an element of it is null, and
\* otherwise a list with one record per element, in order; getProductInfo
\* returns null when the request fails, the response has no body or its
\* result is null or absent, and otherwise one record.  A record's
\* syncVariantId, name, price and image are the id, name, retail_price and
\* thumbnail_url of the item it was made from.
C19_PrintfulDegrades ==
  /\ call.channel = "printful" => ret.state # "threw"
  /\ PrintfulEnded("getSyncVariants") =>
       LET oc == call.response
           r  == oc.data.result
       IN /\ ret.result.k = "array"
          /\ IF \/ NoBody(oc)
                \/ r.k # "array"
                \/ \E i \in 1..Len(r.items) : Nullish(r.items[i])
             THEN ret.result.items = <<>>
             ELSE /\ Len(ret.result.items) = Len(r.items)
                  /\ \A i \in 1..Len(r.items) :
                       MapsItem(ret.result.items[i], r.items[i])
  /\ PrintfulEnded("getProductInfo") =>
       LET oc == call.response
           r  == oc.data.result
       IN IF NoBody(oc) \/ Nullish(r)
          THEN ret.result.k = "null"
          ELSE /\ ret.result.k = "object"
               /\ MapsItem(ret.result.item, r.item)

\* getSyncVariants got a 2xx response whose result holds a product and then
\* a null, and returned the empty list
C19_Witness ==
  /\ PrintfulEnded("getSyncVariants")
  /\ call.response.kind = "ok"
  /\ call.response.data.result.k = "array"
  /\ Len(call.response.data.result.items) = 2
  /\ call.response.data.result.items[1].id = Num(1)
  /\ call.response.data.result.items[2].k = "null"
  /\ ret = Returned(ProductList(<<>>))

(***************************************************************************)
(* Properties of concurrent invocations (checked under SpecRace).          *)
(***************************************************************************)
Saved(q) ==
  /\ procs[q].pc = "done"
  /\ procs[q].ret.state = "returned"
  /\ procs[q].ret.result.success

\* both processes returned success, for two different listing ids
BothSaved ==
  /\ pc = "race"
  /\ \A q \in Procs : Saved(q)
  /\ procs[1].id # procs[2].id

\* the process that wrote products.json last, and the other one
LastWriter == CHOOSE q \in Procs : procs[q].wrote = 2
FirstWriter == CHOOSE q \in Procs : q # LastWriter

Listed(entries, id) == FindIndex(entries, id) > 0

\* C21: when two processes have both returned success from createListing
\* on the same directory, both product files exist and products.json is
\* what the last writer made of the catalogue it had read: it holds the
\* last writer's entry, and it holds the first writer's entry only if the
\* last writer read products.json after the first writer wrote it.
\* Nothing prevents the other order, in which the first entry is lost.
C21_LastWriterWins ==
  BothSaved =>
    LET w == LastWriter
        o == FirstWriter
    IN /\ procs[w].wrote = 2 /\ procs[o].wrote = 1
       /\ {procs[w].id, procs[o].id} \subseteq DOMAIN files
       /\ files[procs[w].id].kind = "object"
       /\ files[procs[o].id].kind = "object"
       /\ files["products"].kind = "array"
       /\ Listed(files["products"].entries, procs[w].id)
       /\ Listed(files["products"].entries, procs[o].id)
            <=> Listed(procs[w].catalogue.entries, procs[o].id)

\* both calls returned success, both product files exist, and products.json
\* lists only the product of the last writer
C21_Witness ==
  /\ BothSaved
  /\ {procs[1].id, procs[2].id} \subseteq DOMAIN files
  /\ files["products"].kind = "array"
  /\ Listed(files["products"].entries, procs[LastWriter].id)
  /\ ~Listed(files["products"].entries, procs[FirstWriter].id)

(***************************************************************************)
(* Properties of every external call (checked under SpecCalls).            *)
(***************************************************************************)
\* the number of requests one call of the method sends
ExpectedRequests(c) ==
  IF c.channel = "website" THEN 0
  ELSE IF c.method = "uploadImages" THEN Len(c.arg)
  ELSE 1

ExpectedMethod(c) ==
  IF c.channel = "printful" THEN "GET"
  ELSE IF c.method = "updateListing" THEN "PATCH"
  ELSE "POST"

\* the requests the step adds to the history
NewRequests == SubSeq(requests', Len(requests) + 1, Len(requests'))

\* the step sends the requests of one new call of a method, once each
SendsOnce ==
  /\ Len(requests') >= Len(requests)
  /\ SubSeq(requests', 1, Len(requests)) = requests
  /\ Len(NewRequests) = ExpectedRequests(call')
  /\ \A k \in 1..Len(NewRequests) :
       /\ NewRequests[k].call = ncalls'
       /\ NewRequests[k].rank = k
       /\ NewRequests[k].method = ExpectedMethod(call')

\* add-product calls createListing first and once, and uploadImages once,
\* only after createListing returned success
CommandCallsOnce ==
  cmd' = "add-product" =>
    \/ ncalls = 0 /\ call'.method = "createListing"
    \/ /\ ncalls = 1
       /\ call.method = "createListing"
       /\ call'.method = "uploadImages"
       /\ ret.state = "returned" /\ ret.result.success

\* C22: requests are sent only by the step that starts a call of a method,
\* and that step sends exactly one POST for createListing, one PATCH for
\* updateListing, one POST per URL for uploadImages and one GET for a
\* Printful method; no later step sends a request, whatever the outcome of
\* the requests, and add-product calls each method at most once and none
\* after a failure.
C22_NoRetries ==
  [][ /\ ncalls' \in {ncalls, ncalls + 1}
      /\ ncalls' = ncalls => requests' = requests
      /\ ncalls' = ncalls + 1 => SendsOnce /\ CommandCallsOnce ]_vars

\* add-product ended with status 1 after its single POST had failed
C22_Witness ==
  /\ cmd = "add-product"
  /\ pc = "exited"
  /\ exitCode = 1
  /\ ncalls = 1
  /\ Len(requests) = 1
  /\ requests[1].method = "POST"
  /\ ret.state = "returned"
  /\ ~ret.result.success

(***************************************************************************)
(* Properties of the Etsy error mapping (checked under SpecChannel).       *)
(***************************************************************************)
\* an Etsy method has ended after a request of it failed with call.response
EtsyFailed ==
  /\ call.channel = "etsy"
  /\ ret.state \in {"returned", "threw"}
  /\ call.response.kind \in {"status", "noResponse", "setup", "thrown"}

\* the error and the errors entries of the body of a response
BodyErrors(data) ==
  IF data.shape # "object" THEN <<>>
  ELSE (IF data.error # "" THEN <<data.error>> ELSE <<>>) \o data.errors.items

\* C23: an Etsy method whose request failed returns a result with success
\* false and a non-empty errors list: after a response with an error
\* status, 'API Error: <status> - <statusText>' followed by the error and
\* the errors entries of the body; after a request without response,
\* exactly the no-response message; after a request that could not be
\* set up, exactly 'Request error: <message>'; after any other exception,
\* the message 'An unexpected error occurred'.
C23_ErrorMapping ==
  EtsyFailed =>
    LET oc == call.response
    IN /\ ret.state = "returned"
       /\ ~ret.result.success
       /\ ret.result.errors # <<>>
       /\ oc.kind = "status" =>
            ret.result.errors =
              <<"API Error: " \o ToString(oc.status) \o " - " \o oc.statusText>>
              \o BodyErrors(oc.data)
       /\ oc.kind = "noResponse" =>
            ret.result.errors =
              <<"No response from Etsy API. Please check your connection.">>
       /\ oc.kind = "setup" =>
            ret.result.errors = <<"Request error: " \o oc.message>>
       /\ oc.kind = "thrown" =>
            ret.result.message = "An unexpected error occurred"

(***************************************************************************)
(* Properties of the website channel on a missing product (checked under   *)
(* SpecChannel).                                                           *)
(***************************************************************************)
\* the step is a call of updateListing or uploadImages of the website
\* channel for an id that has no product file
MissingProductStep ==
  /\ ncalls' = ncalls + 1
  /\ call'.channel = "website"
  /\ call'.method \in {"updateListing", "uploadImages"}
  /\ call'.listingId \notin DOMAIN files

\* C24: updateListing and uploadImages of the website channel, called with
\* an id for which there is no product file, return success false with the
\* message 'Product <id> not found' and leave the directory as it was: no
\* file is created or changed, products.json included.
C24_NotFoundFrame ==
  [][ MissingProductStep =>
        /\ ret'.state = "returned"
        /\ ~ret'.result.success
        /\ ret'.result.message = "Product " \o call'.listingId \o " not found"
        /\ files' = files
        /\ dirExists' = dirExists ]_vars

\* uploadImages was called for nope-0 in a directory that holds old-0 and
\* a catalogue, and answered not found
C24_Witness ==
  /\ call.channel = "website"
  /\ call.method = "uploadImages"
  /\ call.listingId = "nope-0"
  /\ ncalls = 1
  /\ ret.state = "returned"
  /\ ret.result.message = "Product nope-0 not found"
  /\ DOMAIN files = {"old-0", "products"}
  /\ files["old-0"] = ObjectFile(OldProduct)
  /\ files["products"] = ArrayFile(OldCatalogue)

(***************************************************************************)
(* Properties of the stored images (checked under SpecChannel).            *)
(***************************************************************************)
\* the images list of product file id in directory f, empty when the file
\* has none
ImagesOf(f, id) ==
  IF "images" \in DOMAIN f[id].obj THEN f[id].obj.images.list ELSE <<>>

\* the k-th image has rank k
Ranked(l) == \A k \in 1..Len(l) : l[k].rank = k

\* the step is a successful uploadImages of the website channel on a
\* product file
ImagesAdded ==
  /\ ncalls' = ncalls + 1
  /\ call'.channel = "website"
  /\ call'.method = "uploadImages"
  /\ ret'.state = "returned" /\ ret'.result.success
  /\ files[call'.listingId].kind = "object"

\* the step is a successful createListing of the website channel
ListingCreated ==
  /\ ncalls' = ncalls + 1
  /\ call'.channel = "website"
  /\ call'.method = "createListing"
  /\ ret'.state = "returned" /\ ret'.result.success

\* the product files written by createListing in this behaviour
CreatedFiles ==
  {created[i] : i \in DOMAIN created} \cap {id \in DOMAIN files : files[id].kind = "object"}

\* C25: createListing of a product without images writes a file without
\* images; every successful uploadImages on a product file leaves the
\* stored images in place, with their ranks, and appends the supplied URLs
\* in their order with the ranks that follow; so the images of a file made
\* by createListing are the supplied lists in call order, the k-th with
\* rank k.
C25_ImageRanks ==
  /\ [](\A id \in CreatedFiles : Ranked(ImagesOf(files, id)))
  /\ [][ /\ ListingCreated =>
             ImagesOf(files', ret'.result.listingId) = <<>>
         /\ ImagesAdded =>
             LET old  == ImagesOf(files, call'.listingId)
                 urls == call'.arg
             IN ImagesOf(files', call'.listingId) =
                  old \o [i \in 1..Len(urls) |->
                            [url |-> urls[i], rank |-> Len(old) + i]] ]_vars

\* createListing wrote a product file and uploadImages added two URLs to
\* it: the file holds them in order with ranks 1 and 2
C25_Witness ==
  /\ created # <<>>
  /\ call.channel = "website"
  /\ call.method = "uploadImages"
  /\ call.listingId = created[1]
  /\ ret.state = "returned" /\ ret.result.success
  /\ created[1] \in CreatedFiles
  /\ ImagesOf(files, created[1]) =
       <<[url |-> Url(1), rank |-> 1], [url |-> Url(2), rank |-> 2]>>

(***************************************************************************)
(* Properties of generateId (checked under SpecId).                        *)
(***************************************************************************)
RECURSIVE Chars(_)
\* the characters of a string, one by one
Chars(s) ==
  IF s = <<>> THEN <<>>
  ELSE [i \in 1..Head(s).n |-> Head(s).ch] \o Chars(Tail(s))

RECURSIVE Written(_)
\* the string made of the characters
Written(c) == IF c = <<>> THEN "" ELSE Head(c) \o Written(Tail(c))

\* lower-cased, each character outside a-z and 0-9 replaced by a hyphen
Hyphenated(c) ==
  [i \in 1..Len(c) |-> IF IsAlnum(ToLower(c[i])) THEN ToLower(c[i]) ELSE "-"]

\* one hyphen kept for each maximal run of hyphens
Collapsed(c) ==
  LET keep == {i \in 1..Len(c) : ~(c[i] = "-" /\ i > 1 /\ c[i - 1] = "-")}
      nth(k) == CHOOSE i \in keep : Cardinality({j \in keep : j <= i}) = k
  IN [k \in 1..Cardinality(keep) |-> c[nth(k)]]

RECURSIVE Unhyphened(_)
\* leading and trailing hyphens removed
Unhyphened(c) ==
  IF c # <<>> /\ Head(c) = "-" THEN Unhyphened(Tail(c))
  ELSE IF c # <<>> /\ c[Len(c)] = "-" THEN Unhyphened(SubSeq(c, 1, Len(c) - 1))
  ELSE c

RECURSIVE Base36Digits(_)
\* the base-36 digits of n
Base36Digits(n) ==
  IF n < 36 THEN <<Digits36[n + 1]>>
  ELSE Append(Base36Digits(n \div 36), Digits36[(n % 36) + 1])

\* <slug>-<base36 timestamp> as the claim describes it
DescribedId(title, now) ==
  Unhyphened(Collapsed(Hyphenated(Chars(title)))) \o <<"-">> \o Base36Digits(now)

\* C26: for a title accepted by validation, generateId returns the slug
\* (the lower-cased title, each maximal run of characters outside a-z and
\* 0-9 replaced by one hyphen, leading and trailing hyphens removed),
\* a hyphen and the base-36 timestamp; the id holds only a-z, 0-9 and
\* hyphens, does not begin or end with a hyphen and has no two adjacent
\* hyphens.
C26_IdShape ==
  pc = "id_done" =>
    LET id == DescribedId(product.title, clock)
    IN /\ created = <<Written(id)>>
       /\ \A i \in 1..Len(id) : IsAlnum(id[i]) \/ id[i] = "-"
       /\ id[1] # "-"
       /\ id[Len(id)] # "-"
       /\ \A i \in 1..(Len(id) - 1) : ~(id[i] = "-" /\ id[i + 1] = "-")

(***************************************************************************)
(* Properties of the listing payload (checked under SpecPayload).          *)
(***************************************************************************)
\* the product has a numeric taxonomyId
TaxonomySet(p) == "taxonomyId" \in DOMAIN p /\ p.taxonomyId.k = "num"

\* C27: the request of createListing, in the current service and in the
\* legacy one, carries the title, description, price, quantity, tags and
\* materials of the product, who_made 'i_did', when_made '2020_2024', and
\* as taxonomy_id the taxonomyId of the product when it has one (0
\* included) and 1 when it has none.
C27_ListingPayload ==
  (call.method = "createListing" /\ call.channel \in {"etsy", "etsy-legacy"}) =>
    LET b == requests[Len(requests)].body
        p == call.arg
    IN /\ requests[Len(requests)].call = call.no
       /\ b.title = p.title
       /\ b.description = p.description
       /\ b.price = p.price
       /\ b.quantity = p.quantity
       /\ b.tags = p.tags
       /\ b.materials = p.materials
       /\ b.who_made = "i_did"
       /\ b.when_made = "2020_2024"
       /\ b.taxonomy_id = IF TaxonomySet(p) THEN p.taxonomyId ELSE Num(1)

(***************************************************************************)
(* Properties of the two configuration checks (checked under SpecCheck).   *)
(***************************************************************************)
\* the etsy section is present with its three fields non-empty
EtsyComplete ==
  /\ config.etsy.present
  /\ \A f \in {"apiKey", "token", "shopId"} : config.etsy[f] # ""

\* C28: on every Config, EtsyService.isConfigured() returns true exactly
\* when validateChannelConfig(config, 'etsy') does not throw, and that is
\* exactly when the etsy section is present with apiKey, token and shopId
\* all non-empty.
C28_ChecksAgree ==
  (pc = "cfg_asked" /\ check.channel = "etsy") =>
    /\ ret.result \in BOOLEAN
    /\ ret.result <=> ~check.threw
    /\ ret.result <=> EtsyComplete

\* a Config whose etsy section lacks only the token: isConfigured returned
\* false and the check threw, naming ETSY_TOKEN
C28_Witness ==
  /\ pc = "cfg_asked"
  /\ check.channel = "etsy"
  /\ config.etsy.present
  /\ config.etsy.token = ""
  /\ ret = Returned(FALSE)
  /\ check.threw
  /\ check.missing = <<"ETSY_TOKEN">>

(***************************************************************************)
(* Properties of a failed createListing of the website channel (checked    *)
(* under SpecChannel).                                                     *)
(***************************************************************************)
\* the step is a call of createListing of the website channel
WebsiteCreateStep ==
  /\ ncalls' = ncalls + 1
  /\ call'.channel = "website"
  /\ call'.method = "createListing"

\* the step wrote a product file: the directory holds a file other than
\* products.json that it did not hold, or held with another content
ProductFileWritten ==
  \E id \in DOMAIN files' \ {"products"} :
    id \notin DOMAIN files \/ files'[id] # files[id]

\* C30: a createListing of the website channel that returns success false,
\* whichever step failed, leaves no new product file and leaves
\* products.json as it was; and a createListing that wrote a product file
\* returns success true.
C30_FailedCreateNoTrace ==
  [][ WebsiteCreateStep =>
        /\ ret'.state = "returned"
        /\ ~ret'.result.success => files' = files
        /\ ProductFileWritten => ret'.result.success ]_vars

(***************************************************************************)
(* Properties of the catalogue against the product files (checked under    *)
(* SpecMirror).                                                            *)
(***************************************************************************)
\* the files of the directory other than products.json
ProductFiles == DOMAIN files \ {"products"}

\* the entry e carries the id and the title, price and quantity stored in
\* the file id (a field absent from the one is absent from the other)
EntryMirrors(e, id) ==
  /\ HasId(e, id)
  /\ files[id].kind = "object"
  /\ \A k \in {"title", "price", "quantity"} :
       /\ k \in DOMAIN e <=> k \in DOMAIN files[id].obj
       /\ k \in DOMAIN e => e[k] = files[id].obj[k]

\* products.json is a JSON array with one entry per product file and no
\* other entry, each entry equal to its file on id, title, price, quantity
CatalogueMirrors ==
  /\ files["products"].kind = "array"
  /\ \A id \in ProductFiles :
       /\ Cardinality(CatalogueEntries(id)) = 1
       /\ \A i \in CatalogueEntries(id) :
            EntryMirrors(files["products"].entries[i], id)
  /\ \A i \in DOMAIN files["products"].entries :
       \E id \in ProductFiles : HasId(files["products"].entries[i], id)

\* C29: from an empty output directory and with no I/O failure, after any
\* sequence of createListing, updateListing and uploadImages of the website
\* channel with any listing ids, products.json is a JSON array holding
\* exactly one entry per product file of the directory and no other, each
\* with the id, title, price and quantity stored in <id>.json (before the
\* first product file there is no products.json to compare).
C29_CatalogueMirrors ==
  pc = "mirror" =>
    IF "products" \in DOMAIN files THEN CatalogueMirrors
    ELSE ProductFiles = {}

====
